---- MODULE Spec2Model ----
(***************************************************************************)
(* Form Memory: the content script (class FormMemory) and the background   *)
(* service (class BackgroundService).                                      *)
(*                                                                         *)
(* Spec      : one page load: the change tracker, the save prompt, the     *)
(*             save and load message exchanges and the two storage tiers;  *)
(*             a timer that was set may fire after any delay, storage      *)
(*             writes and the extension context may fail.                  *)
(* SpecTimed : the same page load with the timers' delays counted in       *)
(*             seconds, storage and the extension context healthy.         *)
(* SpecFn    : extractFormData, restoreFormData, cleanSecurityFields and the  *)
(*             per-key load round trip applied to inputs drawn from        *)
(*             bounded sets.                                               *)
(***************************************************************************)
EXTENDS Integers, Sequences, FiniteSets, TLC

VARIABLES
    \* ---- the page (Spec) ----
    dom,            \* the document's forms, in document order, with live field state
    forms,          \* FormMemory.forms: indexes into dom, in detection order
    listeners,      \* per form of dom, the indexes its submit listeners were attached
                    \* with, in attachment order (its fields carry as many input
                    \* and change listeners)
    hasUnsavedChanges,
    debounceTimer,  \* handle of the debounce timer, or NoTimer
    hideTimer,      \* handle of the auto-hide/feedback timer, or NoTimer
    suggestUI,      \* the prompt FormMemory holds, or NoPrompt
    domPrompts,     \* number of elements with id form-memory-suggest in the document
    timers,         \* the window's pending timeouts: handle -> timer record
    saves,          \* running saveFormData calls started by save clicks
    load,           \* the running loadSavedData call
    sync,           \* chrome.storage.sync: key -> entry
    local,          \* chrome.storage.local: key -> entry
    runtimeValid,   \* chrome.runtime.id is defined
    quota,          \* how the background service answers during this page load
                    \* (ServiceModes)
    timed,          \* whether the timers' delays are counted (SpecTimed) or a set
                    \* timer may fire after any delay (Spec)
    hist,           \* history: what the last steps did (observation only)
    \* ---- function harness (SpecFn) ----
    fn

vars == <<dom, forms, listeners, hasUnsavedChanges, debounceTimer, hideTimer, suggestUI,
          domPrompts, timers, saves, load, sync, local, runtimeValid, quota, timed, hist, fn>>

pageVars == <<dom, forms, listeners, hasUnsavedChanges, debounceTimer, hideTimer, suggestUI,
              domPrompts, timers, saves, load, sync, local, runtimeValid, quota, timed, hist>>

(***************************************************************************)
(* Values, fields, forms                                                   *)
(***************************************************************************)

\* FormData values are string | boolean.
StrV(s) == [isBool |-> FALSE, s |-> s, b |-> FALSE]
BoolV(b) == [isBool |-> TRUE, s |-> "", b |-> b]

\* An input, textarea or select element.
Field(name, id, kind, value, checked, attr) ==
    [name |-> name, id |-> id, kind |-> kind, value |-> value,
     checked |-> checked, attr |-> attr]

\* A form element: its identifier text (id, class, name, action), the text
\* of its buttons, the text of its container, and its fields.
Form(ident, button, context, fields) ==
    [ident |-> ident, button |-> button, context |-> context, fields |-> fields]

EmptyMap == <<>>

Put(data, name, v) == (name :> v) @@ data

Size(data) == Cardinality(DOMAIN data)

Range(s) == {s[i] : i \in DOMAIN s}

(***************************************************************************)
(* FieldClassifier: shouldSkipField                                        *)
(***************************************************************************)

\* The field names of the model's vocabulary that one of securityPatterns
\* matches (/csrf/i, /_token$/i, /session/i, /password/i, /pwd/i, /otp/i,
\* /^__/, /_id$/i, ...).
SecurityPatternNames ==
    {"csrf_token", "password", "user_id", "__state", "session_key", "otp"}

NameMatchesSecurityPattern(name) == name \in SecurityPatternNames

\* /^[a-zA-Z0-9+/=_-]+$/ on the values of the model's vocabulary.
TokenAlphabetValues ==
    {"bob", "pro", "basic", "true", "x", "hi", "yes",
     "abcdefghijklmnopqrst", "abcdefghijklmnopqrstu"}

IsTokenAlphabet(value) == value \in TokenAlphabetValues

\* hasAttribute('data-csrf' | 'data-token' | 'data-security' | 'data-auth') or
\* a data-purpose attribute containing one of those words.
HasSecurityAttr(element) == element.attr

\* shouldSkipField without the type check of line 488: what C3 must tell
\* apart from the function.
ShouldSkipField_NoPasswordKind(element, name) ==
    IF NameMatchesSecurityPattern(name) THEN TRUE
    ELSE IF element.kind = "hidden"
            /\ Len(element.value) > 20 /\ IsTokenAlphabet(element.value) THEN TRUE
    ELSE HasSecurityAttr(element)

\* shouldSkipField with the length test value.length >= 20: what C34 must
\* tell apart from the function.
ShouldSkipField_FromTwenty(element, name) ==
    IF NameMatchesSecurityPattern(name) THEN TRUE
    ELSE IF element.kind = "password" THEN TRUE
    ELSE IF element.kind = "hidden"
            /\ Len(element.value) >= 20 /\ IsTokenAlphabet(element.value) THEN TRUE
    ELSE HasSecurityAttr(element)

ShouldSkipField(element, name) ==
    IF NameMatchesSecurityPattern(name) THEN TRUE
    ELSE IF element.kind = "password" THEN TRUE
    ELSE IF element.kind = "hidden"
            /\ Len(element.value) > 20 /\ IsTokenAlphabet(element.value) THEN TRUE
    ELSE HasSecurityAttr(element)

(***************************************************************************)
(* FormClassifier: isAuthenticationForm                                    *)
(***************************************************************************)

\* querySelectorAll('input:not([type="file"]), textarea, select')
Inputs(form) == SelectSeq(form.fields, LAMBDA e : e.kind # "file")

\* querySelectorAll('input')
InputTags(form) == SelectSeq(form.fields, LAMBDA e : e.kind \notin {"textarea", "select"})

CountKind(form, kind) == Cardinality({j \in DOMAIN form.fields : form.fields[j].kind = kind})

\* authPatterns on the identifier texts of the vocabulary.
AuthIdentifiers == {"login-form", "signup"}

\* authButtonPatterns on the button texts of the vocabulary.
AuthButtonTexts == {"log in", "sign up"}

\* contextPatterns on the container texts of the vocabulary.
AuthContextTexts == {"please sign in", "see our privacy policy"}

\* input.name || input.id || input.placeholder
FieldLabel(e) == IF e.name # "" THEN e.name ELSE e.id

\* authFieldPatterns on the joined labels: a pattern a.*b matches when a label
\* containing a is followed by (or is) a label containing b.
AuthFieldPairs ==
    {<<"username", "password">>, <<"email", "password">>, <<"email", "confirm_email">>,
     <<"firstname", "lastname">>, <<"username", "pin_pass">>}

HasAuthFieldPattern(form) ==
    LET ins == InputTags(form) IN
    \E j, k \in DOMAIN ins :
        j <= k /\ <<FieldLabel(ins[j]), FieldLabel(ins[k])>> \in AuthFieldPairs

\* /confirm/i, /verify/i, /agree/i, /terms/i, /newsletter/i, /firstname/i, ...
RegistrationIndicatorLabels ==
    {"confirm_email", "newsletter", "firstname", "lastname", "agree"}

MaxContextInputs == 8

MinEmailFormInputs == 3

\* isAuthenticationForm letting the container text decide whatever the number
\* of inputs: what C35 must tell apart from the method.
IsAuthenticationForm_NoInputBound(form) ==
    LET passwordFields == CountKind(form, "password")
        ins == InputTags(form)
    IN  IF passwordFields > 0 THEN TRUE
        ELSE IF form.ident \in AuthIdentifiers THEN TRUE
        ELSE IF HasAuthFieldPattern(form) THEN TRUE
        ELSE IF form.button \in AuthButtonTexts THEN TRUE
        ELSE IF form.context \in AuthContextTexts THEN TRUE
        ELSE IF CountKind(form, "email") > 0 /\ Len(ins) >= MinEmailFormInputs
                /\ \E j \in DOMAIN ins : FieldLabel(ins[j]) \in RegistrationIndicatorLabels
             THEN TRUE
        ELSE FALSE

IsAuthenticationForm(form) ==
    LET passwordFields == CountKind(form, "password")
        ins == InputTags(form)
    IN  IF passwordFields > 0 THEN TRUE
        ELSE IF form.ident \in AuthIdentifiers THEN TRUE
        ELSE IF HasAuthFieldPattern(form) THEN TRUE
        ELSE IF form.button \in AuthButtonTexts THEN TRUE
        ELSE IF form.context \in AuthContextTexts /\ Len(ins) <= MaxContextInputs THEN TRUE
        ELSE IF passwordFields >= 2 THEN TRUE
        ELSE IF CountKind(form, "email") > 0 /\ Len(ins) >= MinEmailFormInputs
                /\ \E j \in DOMAIN ins : FieldLabel(ins[j]) \in RegistrationIndicatorLabels
             THEN TRUE
        ELSE FALSE

(***************************************************************************)
(* PersistenceCoordinator: extractFormData, cleanSecurityFields            *)
(***************************************************************************)

\* value.trim() on the values of the vocabulary.
BlankValues == {"", "  "}

\* A trim that removes nothing: what C33 must tell apart from the method.
Trim_Nothing(value) == value

Trim(value) == IF value \in BlankValues THEN "" ELSE value

\* `field_${Math.random().toString(36).substring(2, 11)}`: a fresh name, which
\* no stored map and no other field carries.
RandomName(j) == "field_" \o ToString(j)

\* The group's query without `:checked`: what C20 must tell apart from the
\* method.
CheckedRadio_FirstMember(fields, name) ==
    LET hits == {k \in DOMAIN fields : fields[k].kind = "radio" /\ fields[k].name = name}
    IN  IF hits = {} THEN 0 ELSE CHOOSE k \in hits : \A m \in hits : k <= m

\* form.querySelector('input[type="radio"][name="<name>"]:checked'): the index
\* of the first checked radio with that name attribute, 0 for none.
CheckedRadio(fields, name) ==
    LET hits == {k \in DOMAIN fields :
                    fields[k].kind = "radio" /\ fields[k].name = name /\ fields[k].checked}
    IN  IF hits = {} THEN 0 ELSE CHOOSE k \in hits : \A m \in hits : k <= m

RECURSIVE ExtractFrom(_, _, _, _)
ExtractFrom(fields, j, data, processedRadioGroups) ==
    IF j > Len(fields) THEN data
    ELSE
      LET element == fields[j]
          name == IF element.name # "" THEN element.name
                  ELSE IF element.id # "" THEN element.id ELSE RandomName(j)
      IN  IF element.kind = "file" THEN
              ExtractFrom(fields, j + 1, data, processedRadioGroups)
          ELSE IF ShouldSkipField(element, name) THEN
              ExtractFrom(fields, j + 1, data, processedRadioGroups)
          ELSE IF element.kind = "radio" THEN
              IF name \in processedRadioGroups THEN
                  ExtractFrom(fields, j + 1, data, processedRadioGroups)
              ELSE
                  LET c == CheckedRadio(fields, name) IN
                  ExtractFrom(fields, j + 1,
                              IF c # 0 THEN Put(data, name, StrV(fields[c].value)) ELSE data,
                              processedRadioGroups \cup {name})
          ELSE IF element.kind = "checkbox" THEN
              ExtractFrom(fields, j + 1,
                          IF element.checked
                          THEN Put(data, name,
                                   IF element.value # "" THEN StrV(element.value)
                                   ELSE BoolV(TRUE))
                          ELSE data,
                          processedRadioGroups)
          ELSE
              ExtractFrom(fields, j + 1,
                          IF element.value # "" /\ Trim(element.value) # ""
                          THEN Put(data, name, StrV(element.value)) ELSE data,
                          processedRadioGroups)

ExtractFormData(form) == ExtractFrom(form.fields, 1, EmptyMap, {})

\* The mock element cleanSecurityFields hands to shouldSkipField.
MockElement(fieldName, value) ==
    Field(fieldName, "", "text", IF value.isBool THEN "" ELSE value.s, FALSE, FALSE)

\* cleanSecurityFields deleting one rejected field per pass: what C10 must
\* tell apart from the function.
CleanSecurityFields_OnePerPass(data) ==
    LET rejected == {fieldName \in DOMAIN data :
                        ShouldSkipField(MockElement(fieldName, data[fieldName]), fieldName)}
        first == CHOOSE fieldName \in rejected :
                     \A other \in rejected : Len(fieldName) <= Len(other)
    IN  IF rejected = {} THEN data
        ELSE [fieldName \in DOMAIN data \ {first} |-> data[fieldName]]

CleanSecurityFields(data) ==
    LET kept == {fieldName \in DOMAIN data :
                    ~ShouldSkipField(MockElement(fieldName, data[fieldName]), fieldName)}
    IN  [fieldName \in kept |-> data[fieldName]]

(***************************************************************************)
(* RestoreCoordinator: restoreFormData                                     *)
(***************************************************************************)

\* restoreFormData checking the first radio of the group whatever value was
\* stored: what C40 must tell apart from the method.
TargetRadio_FirstOfGroup(fields, name, value) ==
    LET hits == {k \in DOMAIN fields :
                    fields[k].kind = "radio" /\ fields[k].name = name}
    IN  IF hits = {} THEN 0 ELSE CHOOSE k \in hits : \A m \in hits : k <= m

\* form.querySelector('input[type="radio"][name="<name>"][value="<value>"]')
TargetRadio(fields, name, value) ==
    LET hits == {k \in DOMAIN fields :
                    fields[k].kind = "radio" /\ fields[k].name = name
                    /\ fields[k].value = value}
    IN  IF hits = {} THEN 0 ELSE CHOOSE k \in hits : \A m \in hits : k <= m

\* restoreFormData leaving the group's radios as they are before it checks
\* the target: what C32 must tell apart from the method.
UncheckGroup_KeepChecked(fields, name) == fields

\* allRadios.forEach(radio => radio.checked = false)
UncheckGroup(fields, name) ==
    [k \in DOMAIN fields |->
        IF fields[k].kind = "radio" /\ fields[k].name = name
        THEN [fields[k] EXCEPT !.checked = FALSE] ELSE fields[k]]

\* The result: the fields after restoration and the events dispatched, each
\* <<index of the field, event type>>.
RECURSIVE RestoreFrom(_, _, _, _, _)
RestoreFrom(fields, j, data, processedRadioGroups, events) ==
    IF j > Len(fields) THEN [fields |-> fields, events |-> events]
    ELSE
      LET element == fields[j]
          name == IF element.name # "" THEN element.name ELSE element.id
      IN  IF element.kind = "file" \/ name = "" \/ name \notin DOMAIN data THEN
              RestoreFrom(fields, j + 1, data, processedRadioGroups, events)
          ELSE IF ShouldSkipField(element, name) THEN
              RestoreFrom(fields, j + 1, data, processedRadioGroups, events)
          ELSE
            LET value == data[name] IN
            IF element.kind = "radio" THEN
                IF name \in processedRadioGroups THEN
                    RestoreFrom(fields, j + 1, data, processedRadioGroups, events)
                ELSE
                    LET cleared == UncheckGroup(fields, name)
                        t == IF value.isBool THEN 0 ELSE TargetRadio(fields, name, value.s)
                    IN  RestoreFrom(
                            IF t # 0 THEN [cleared EXCEPT ![t].checked = TRUE] ELSE cleared,
                            j + 1, data, processedRadioGroups \cup {name},
                            IF t # 0 THEN Append(events, <<t, "change">>) ELSE events)
            ELSE IF element.kind = "checkbox" THEN
                RestoreFrom(
                    [fields EXCEPT ![j].checked =
                        IF value.isBool THEN value.b
                        ELSE (element.value = value.s) \/ (value.s = "true")],
                    j + 1, data, processedRadioGroups, Append(events, <<j, "change">>))
            ELSE IF ~value.isBool THEN
                RestoreFrom([fields EXCEPT ![j].value = value.s],
                            j + 1, data, processedRadioGroups, Append(events, <<j, "input">>))
            ELSE
                RestoreFrom(fields, j + 1, data, processedRadioGroups, events)

RestoreFormData(form, data) == RestoreFrom(form.fields, 1, data, {}, <<>>)

(***************************************************************************)
(* BackgroundService: the two storage tiers                                *)
(***************************************************************************)

\* interface StoredFormData
Entry(url, data, timestamp) == [url |-> url, data |-> data, timestamp |-> timestamp]

Origin == "https://example.com"
Pathname == "/contact"
Href == Origin \o Pathname \o "?ref=mail#top"

GenerateStorageKey(formIndex) == Origin \o Pathname \o "_form_" \o ToString(formIndex)

\* window.location.href as the text pieces `new URL` tells apart: the origin,
\* then path segments, then "?" and the query, then "#" and the fragment (a
\* "?" after the "#" belongs to the fragment).
Location == <<Origin, Pathname, "?", "ref=mail", "#", "top">>

RECURSIVE Concat(_)
Concat(pieces) ==
    IF pieces = <<>> THEN "" ELSE Head(pieces) \o Concat(Tail(pieces))

\* The position from k on of the first piece of href among marks,
\* Len(href) + 1 for none.
RECURSIVE FirstOf(_, _, _)
FirstOf(href, marks, k) ==
    IF k > Len(href) \/ href[k] \in marks THEN k ELSE FirstOf(href, marks, k + 1)

\* new URL(href).origin, .pathname, .search
UrlOrigin(href) == href[1]
UrlPathname(href) == Concat(SubSeq(href, 2, FirstOf(href, {"?", "#"}, 2) - 1))
UrlSearch(href) ==
    Concat(SubSeq(href, FirstOf(href, {"?", "#"}, 2), FirstOf(href, {"#"}, 2) - 1))

\* generateStorageKey keyed on the query string too: what C21 must tell apart
\* from the method.
StorageKeyAt_WithSearch(href, formIndex) ==
    UrlOrigin(href) \o UrlPathname(href) \o UrlSearch(href) \o "_form_" \o ToString(formIndex)

\* generateStorageKey on a page whose window.location.href is href.
StorageKeyAt(href, formIndex) ==
    UrlOrigin(href) \o UrlPathname(href) \o "_form_" \o ToString(formIndex)

\* A tier is a function from the keys it holds to their entries.
SetItem(tier, key, data) == (key :> data) @@ tier

\* The ways the storage calls of one saveFormData can end: the primary write
\* succeeds; it throws (the quota is exceeded) and the fallback write succeeds;
\* both throw. Which one it is stays the same during one page load.
SaveOutcomes == {"sync", "local", "fail"}

\* What the background service does during one page load: it answers, its
\* writes ending in one of SaveOutcomes, or it is down (the service worker
\* does not start, no listener receives): every sendMessage rejects.
ServiceModes == SaveOutcomes \cup {"down"}

\* saveFormData writing both tiers whatever the primary write did: what C16
\* must tell apart from the method.
TrySaveFormData_AlwaysFallback(s, l, key, data, syncOk, localOk) ==
    [sync |-> IF syncOk THEN SetItem(s, key, data) ELSE s,
     local |-> IF localOk THEN SetItem(l, key, data) ELSE l,
     response |-> IF syncOk \/ localOk THEN "success" ELSE "error",
     tried |-> <<"sync", "local">>]

\* BackgroundService.saveFormData's try and catch blocks, syncOk and localOk
\* telling whether chrome.storage.sync.set and chrome.storage.local.set
\* resolve: the tiers after the call, the response the listener sends and the
\* writes attempted, in order.
TrySaveFormData(s, l, key, data, syncOk, localOk) ==
    IF syncOk THEN
        [sync |-> SetItem(s, key, data), local |-> l, response |-> "success",
         tried |-> <<"sync">>]
    ELSE IF localOk THEN
        [sync |-> s, local |-> SetItem(l, key, data), response |-> "success",
         tried |-> <<"sync", "local">>]
    ELSE
        [sync |-> s, local |-> l, response |-> "error", tried |-> <<"sync", "local">>]

\* BackgroundService.saveFormData and the listener's answer: the tiers after
\* the call and the response sent ({success: true}, or {error} when the
\* handler rejected).
BgSaveFormData(s, l, key, data, outcome) ==
    LET r == TrySaveFormData(s, l, key, data, outcome = "sync", outcome = "local") IN
    [sync |-> r.sync, local |-> r.local, response |-> r.response]

\* getFormData answering from the store although the read threw: what C17
\* must tell apart from the method.
BgGetFormData_IgnoresFailure(s, l, key, readOk) ==
    IF key \in DOMAIN s THEN <<s[key]>>
    ELSE IF key \in DOMAIN l THEN <<l[key]>>
    ELSE <<>>

\* BackgroundService.getFormData: {data: entry} as a one-element sequence,
\* {data: null} as the empty one. readOk is false when a storage read throws.
BgGetFormData(s, l, key, readOk) ==
    IF ~readOk THEN <<>>
    ELSE IF key \in DOMAIN s THEN <<s[key]>>
    ELSE IF key \in DOMAIN l THEN <<l[key]>>
    ELSE <<>>

(***************************************************************************)
(* ChangeTracker: timers, the prompt                                       *)
(***************************************************************************)

NoTimer == 0

DebounceDelay == 2
AutoHideDelay == 10
SuccessDelay == 1
ErrorResetDelay == 2

\* Bound: error-reset timeouts pending at once.
MaxErrorTimers == 1

\* Bound: saveFormData calls running at once.
MaxSaves == 1

\* window.setTimeout: the handle given to the new timer, the smallest one free.
NewHandle(ts) ==
    CHOOSE h \in 1..(Cardinality(DOMAIN ts) + 1) :
        h \notin DOMAIN ts /\ \A g \in 1..(Cardinality(DOMAIN ts) + 1) : g \notin DOMAIN ts => h <= g

\* attached: the button the callback acts on is still in the document.
SetTimeout(ts, cls, delay, attached) ==
    (NewHandle(ts) :> [cls |-> cls, left |-> IF timed THEN delay ELSE 0,
                       attached |-> attached]) @@ ts

ClearTimeout(ts, h) == [g \in DOMAIN ts \ {h} |-> ts[g]]

NoPrompt == [shown |-> FALSE, form |-> 0, formIndex |-> -1, disabled |-> FALSE, text |-> ""]

\* The tracker's fields and the window's timers as one value, so that the
\* methods below compose the way the calls do.
Tracker ==
    [hasUnsavedChanges |-> hasUnsavedChanges, debounceTimer |-> debounceTimer,
     hideTimer |-> hideTimer, suggestUI |-> suggestUI, domPrompts |-> domPrompts,
     timers |-> timers, saves |-> saves]

\* scheduleAutoHide without the clearTimeout of lines 320-324: what C25 must
\* tell apart from the method.
ScheduleAutoHide_NoCancel(st, delay) ==
    [st EXCEPT !.hideTimer = NewHandle(st.timers),
               !.timers = SetTimeout(@, "hide", delay, TRUE)]

ScheduleAutoHide(st, delay) ==
    LET cleared == IF st.hideTimer # NoTimer
                   THEN [st EXCEPT !.timers = ClearTimeout(@, st.hideTimer),
                                   !.hideTimer = NoTimer]
                   ELSE st
    IN  [cleared EXCEPT !.hideTimer = NewHandle(cleared.timers),
                        !.timers = SetTimeout(@, "hide", delay, TRUE)]

\* hideSuggestUI without the reset of line 356: what C12 must tell apart from
\* the method.
HideSuggestUI_KeepsFlag(st) ==
    LET cleared == IF st.hideTimer # NoTimer
                   THEN [st EXCEPT !.timers = ClearTimeout(@, st.hideTimer),
                                   !.hideTimer = NoTimer]
                   ELSE st
    IN  IF cleared.suggestUI.shown
        THEN [cleared EXCEPT !.suggestUI = NoPrompt,
                             !.domPrompts = @ - 1,
                             !.timers = [h \in DOMAIN cleared.timers |->
                                            [cleared.timers[h] EXCEPT !.attached = FALSE]],
                             !.saves = [k \in DOMAIN cleared.saves |->
                                            [cleared.saves[k] EXCEPT !.attached = FALSE]]]
        ELSE cleared

HideSuggestUI(st) ==
    LET cleared == IF st.hideTimer # NoTimer
                   THEN [st EXCEPT !.timers = ClearTimeout(@, st.hideTimer),
                                   !.hideTimer = NoTimer]
                   ELSE st
    IN  IF cleared.suggestUI.shown
        THEN [cleared EXCEPT !.suggestUI = NoPrompt,
                             !.domPrompts = @ - 1,
                             !.hasUnsavedChanges = FALSE,
                             \* the removed prompt's button is no longer in the document
                             !.timers = [h \in DOMAIN cleared.timers |->
                                            [cleared.timers[h] EXCEPT !.attached = FALSE]],
                             !.saves = [k \in DOMAIN cleared.saves |->
                                            [cleared.saves[k] EXCEPT !.attached = FALSE]]]
        ELSE cleared

\* showSuggestUI without the guard of lines 114-117: what C1 must tell apart
\* from the method.
ShowSuggestUI_NoGuard(st, form, formIndex) ==
    LET targetForm == IF form # 0 THEN form
                      ELSE IF formIndex # -1 THEN forms[formIndex + 1]
                      ELSE IF Len(forms) > 0 THEN forms[1] ELSE 0
    IN  IF targetForm # 0 /\ IsAuthenticationForm(dom[targetForm]) THEN st
        ELSE ScheduleAutoHide(
                 [st EXCEPT !.suggestUI = [shown |-> TRUE, form |-> form,
                                           formIndex |-> formIndex,
                                           disabled |-> FALSE, text |-> "save"],
                            !.domPrompts = @ + 1],
                 AutoHideDelay)

\* form is a position in dom (0 for undefined), formIndex an index (-1 for
\* undefined).
ShowSuggestUI(st, form, formIndex) ==
    IF st.suggestUI.shown \/ st.domPrompts > 0 THEN st
    ELSE
      LET targetForm == IF form # 0 THEN form
                        ELSE IF formIndex # -1 THEN forms[formIndex + 1]
                        ELSE IF Len(forms) > 0 THEN forms[1] ELSE 0
      IN  IF targetForm # 0 /\ IsAuthenticationForm(dom[targetForm]) THEN st
          ELSE ScheduleAutoHide(
                   [st EXCEPT !.suggestUI = [shown |-> TRUE, form |-> form,
                                             formIndex |-> formIndex,
                                             disabled |-> FALSE, text |-> "save"],
                              !.domPrompts = @ + 1],
                   AutoHideDelay)

\* onInputChange without the return of lines 69-72: what C23 must tell apart
\* from the method.
OnInputChange_NoPromptCheck(st) ==
    LET dirty == [st EXCEPT !.hasUnsavedChanges = TRUE]
        cleared == IF dirty.debounceTimer # NoTimer
                   THEN [dirty EXCEPT !.timers = ClearTimeout(@, dirty.debounceTimer),
                                      !.debounceTimer = NoTimer]
                   ELSE dirty
    IN  [cleared EXCEPT !.debounceTimer = NewHandle(cleared.timers),
                        !.timers = SetTimeout(@, "debounce", DebounceDelay, TRUE)]

\* onInputChange without the clearTimeout of lines 75-78: what C8 must tell
\* apart from the method.
OnInputChange_NoCancel(st) ==
    LET dirty == [st EXCEPT !.hasUnsavedChanges = TRUE] IN
    IF dirty.suggestUI.shown THEN dirty
    ELSE [dirty EXCEPT !.debounceTimer = NewHandle(dirty.timers),
                       !.timers = SetTimeout(@, "debounce", DebounceDelay, TRUE)]

\* The synchronous part of onInputChange: the flag, and the debounce timer
\* restarted unless the prompt is shown.
OnInputChange(st) ==
    LET dirty == [st EXCEPT !.hasUnsavedChanges = TRUE] IN
    IF dirty.suggestUI.shown THEN dirty
    ELSE
      LET cleared == IF dirty.debounceTimer # NoTimer
                     THEN [dirty EXCEPT !.timers = ClearTimeout(@, dirty.debounceTimer),
                                        !.debounceTimer = NoTimer]
                     ELSE dirty
      IN  [cleared EXCEPT !.debounceTimer = NewHandle(cleared.timers),
                          !.timers = SetTimeout(@, "debounce", DebounceDelay, TRUE)]

\* The callback of the debounce timer.
DebounceCallback(st) ==
    LET fired == [st EXCEPT !.debounceTimer = NoTimer] IN
    IF fired.hasUnsavedChanges /\ ~fired.suggestUI.shown
    THEN ShowSuggestUI(fired, 0, -1)
    ELSE fired

\* The callback of the auto-hide timer.
\* The auto-hide callback clearing the reference and leaving the prompt: what
\* C37 must tell apart from the code.
AutoHideCallback_LeavesPrompt(st) == [st EXCEPT !.hideTimer = NoTimer]

AutoHideCallback(st) ==
    LET fired == [st EXCEPT !.hideTimer = NoTimer] IN
    IF fired.suggestUI.shown THEN HideSuggestUI(fired) ELSE fired

\* onFormSubmit without the condition of line 98: what C24 must tell apart
\* from the method.
OnFormSubmit_NoCondition(st, form, formIndex) ==
    LET cleared == IF st.debounceTimer # NoTimer
                   THEN [st EXCEPT !.timers = ClearTimeout(@, st.debounceTimer),
                                   !.debounceTimer = NoTimer]
                   ELSE st
    IN  ShowSuggestUI(cleared, form, formIndex)

\* onFormSubmit without the clearTimeout of lines 100-104: what C22 must tell
\* apart from the method.
OnFormSubmit_NoCancel(st, form, formIndex) ==
    IF st.hasUnsavedChanges /\ ~st.suggestUI.shown
    THEN ShowSuggestUI(st, form, formIndex)
    ELSE st

OnFormSubmit(st, form, formIndex) ==
    IF st.hasUnsavedChanges /\ ~st.suggestUI.shown THEN
        LET cleared == IF st.debounceTimer # NoTimer
                       THEN [st EXCEPT !.timers = ClearTimeout(@, st.debounceTimer),
                                       !.debounceTimer = NoTimer]
                       ELSE st
        IN  ShowSuggestUI(cleared, form, formIndex)
    ELSE st

(***************************************************************************)
(* The save click handler and FormMemory.saveFormData                      *)
(***************************************************************************)

\* const forms = targetForm ? [targetForm] : this.forms
\* saveFormData going through one form whatever prompt started it: what C39
\* must tell apart from the method.
LoopLen_OneForm(form) == 1

LoopLen(form) == IF form # 0 THEN 1 ELSE Len(forms)

FormAt(form, i) == IF form # 0 THEN form ELSE forms[i + 1]

IndexAt(form, formIndex, i) == IF form # 0 THEN formIndex ELSE i

\* saveFormData's loop without the `continue` of lines 370-372: what C18 must
\* tell apart from the method.
NextNonEmpty_NoSkip(form, i) ==
    IF i >= LoopLen(form) THEN LoopLen(form) ELSE i

\* The first loop index from i on whose form yields a non-empty extraction
\* (the others are skipped by `continue`), LoopLen(form) when there is none.
RECURSIVE NextNonEmpty(_, _)
NextNonEmpty(form, i) ==
    IF i >= LoopLen(form) THEN LoopLen(form)
    ELSE IF Size(ExtractFormData(dom[FormAt(form, i)])) = 0 THEN NextNonEmpty(form, i + 1)
    ELSE i

ErrorTimers(ts) == {h \in DOMAIN ts : ts[h].cls = "errReset"}

\* The handler's try branch after `await this.saveFormData(...)`.
SaveSucceeded(st, attached) ==
    ScheduleAutoHide(
        IF attached THEN [st EXCEPT !.suggestUI.text = "done"] ELSE st,
        SuccessDelay)

\* The handler's catch branch.
SaveFailed(st, attached) ==
    LET shown == IF attached
                 THEN [st EXCEPT !.suggestUI.disabled = FALSE, !.suggestUI.text = "error"]
                 ELSE st
    IN  [shown EXCEPT !.timers = SetTimeout(@, "errReset", ErrorResetDelay, attached)]

\* saveFormData without the check of lines 383-385: what C27 must tell apart
\* from the method.
RunSave_NoContextCheck(st, sv, from) ==
    LET i == NextNonEmpty(sv.form, from) IN
    IF i >= LoopLen(sv.form) THEN SaveSucceeded(st, sv.attached)
    ELSE [st EXCEPT !.saves = Append(@,
              [sv EXCEPT !.i = i, !.phase = "req", !.response = "",
                         !.cur = FormAt(sv.form, i),
                         !.key = GenerateStorageKey(IndexAt(sv.form, sv.formIndex, i)),
                         !.data = Entry(Href, ExtractFormData(dom[FormAt(sv.form, i)]), 2)])]

\* saveFormData from loop index `from` up to its next await (a message is in
\* flight: the call joins st.saves), its return or its throw.
RunSave(st, sv, from) ==
    LET i == NextNonEmpty(sv.form, from) IN
    IF i >= LoopLen(sv.form) THEN SaveSucceeded(st, sv.attached)
    ELSE IF ~runtimeValid THEN SaveFailed(st, sv.attached)
    ELSE [st EXCEPT !.saves = Append(@,
              [sv EXCEPT !.i = i, !.phase = "req", !.response = "",
                         !.cur = FormAt(sv.form, i),
                         !.key = GenerateStorageKey(IndexAt(sv.form, sv.formIndex, i)),
                         !.data = Entry(Href, ExtractFormData(dom[FormAt(sv.form, i)]), 2)])]

\* Whether RunSave ends in the catch branch.
RunSaveFails(sv, from) == NextNonEmpty(sv.form, from) < LoopLen(sv.form) /\ ~runtimeValid

\* Whether RunSave finds a form to send (it then sends, or throws).
RunSaveFindsForm(sv, from) == NextNonEmpty(sv.form, from) < LoopLen(sv.form)

NewSave(form, formIndex) ==
    [attached |-> TRUE, form |-> form, formIndex |-> formIndex, i |-> 0, cur |-> 0,
     phase |-> "", response |-> "", key |-> "", data |-> Entry("", EmptyMap, 0)]

\* The save button's click listener up to its first await.
SaveClickHandler(st) ==
    IF st.suggestUI.disabled THEN st
    ELSE RunSave([st EXCEPT !.suggestUI.disabled = TRUE, !.suggestUI.text = "saving"],
                 NewSave(st.suggestUI.form, st.suggestUI.formIndex), 0)

RemoveAt(seq, k) == [j \in 1..(Len(seq) - 1) |-> IF j < k THEN seq[j] ELSE seq[j + 1]]

\* The continuation of saveFormData when the response to its message arrives.
SaveResponseHandler(st, k) ==
    LET sv == st.saves[k]
        rest == [st EXCEPT !.saves = RemoveAt(@, k)]
    IN  IF sv.response = "rejected" THEN SaveFailed(rest, sv.attached)
        ELSE RunSave(rest, sv, sv.i + 1)

\* The callback of the 2-second timeout set in the catch branch.
ErrorResetCallback(st, attached) ==
    IF attached THEN [st EXCEPT !.suggestUI.text = "save"] ELSE st

(***************************************************************************)
(* FormMemory.loadSavedData                                                *)
(***************************************************************************)

RECURSIVE NextEligible(_)
NextEligible(i) ==
    IF i >= Len(forms) THEN Len(forms)
    ELSE IF IsAuthenticationForm(dom[forms[i + 1]]) THEN NextEligible(i + 1)
    ELSE i

NoEntry == Entry("", EmptyMap, 0)

\* loadSavedData without the authentication check of lines 698-701: what C5
\* must tell apart from the method.
LoadFrom_NoAuthCheck(from) ==
    IF from >= Len(forms) \/ ~runtimeValid
    THEN [i |-> Len(forms), phase |-> "done", key |-> "", response |-> <<>>,
          put |-> "", entry |-> NoEntry]
    ELSE [i |-> from, phase |-> "get", key |-> GenerateStorageKey(from), response |-> <<>>,
          put |-> "", entry |-> NoEntry]

\* loadSavedData from loop index `from` up to its next await or its end. With
\* the runtime invalid every sendMessage throws into the loop's catch.
LoadFrom(from) ==
    LET i == NextEligible(from) IN
    IF i >= Len(forms) \/ ~runtimeValid
    THEN [i |-> Len(forms), phase |-> "done", key |-> "", response |-> <<>>,
          put |-> "", entry |-> NoEntry]
    ELSE [i |-> i, phase |-> "get", key |-> GenerateStorageKey(i), response |-> <<>>,
          put |-> "", entry |-> NoEntry]

(***************************************************************************)
(* The pages and stored entries of the model                               *)
(***************************************************************************)

TokenValue == "abcdefghijklmnopqrstu"

\* A login form: a password input, and nothing else that marks it.
LoginForm ==
    Form("", "go", "",
         <<Field("username", "", "text", "bob", FALSE, FALSE),
           Field("pin", "", "password", "x", FALSE, FALSE)>>)

\* A contact form with a CSRF token in a hidden input.
ContactForm ==
    Form("contact", "send", "",
         <<Field("message", "", "text", "", FALSE, FALSE),
           Field("csrf_token", "", "hidden", TokenValue, FALSE, FALSE)>>)

Pages == {<<LoginForm, ContactForm>>, <<ContactForm, LoginForm>>}

\* Entries stored by earlier visits, some of them before the classifier
\* rejected csrf_token.
CleanEntry == Entry(Href, ("message" :> StrV("hi")), 1)
DirtyEntry == Entry(Href, ("message" :> StrV("hi")) @@ ("csrf_token" :> StrV(TokenValue)), 1)
TokenOnlyEntry == Entry(Href, ("csrf_token" :> StrV(TokenValue)), 1)
LoginEntry == Entry(Href, ("username" :> StrV("bob")), 1)

\* The position of the contact form and of the login form in a page.
PositionOf(page, form) == CHOOSE p \in DOMAIN page : page[p] = form

ContactKey(page) == GenerateStorageKey(PositionOf(page, ContactForm) - 1)
LoginKey(page) == GenerateStorageKey(PositionOf(page, LoginForm) - 1)

\* <<sync, local>> at page load.
InitialStores(page) ==
    { <<(ContactKey(page) :> DirtyEntry) @@ (LoginKey(page) :> LoginEntry), EmptyMap>> }

(***************************************************************************)
(* Spec: one page load                                                     *)
(***************************************************************************)

\* lastEdited: the form whose field raised the last input or change event
\*   while the tracker is dirty with no prompt (0 otherwise);
\* since: the seconds since that event while a debounce timer is pending
\*   (0 otherwise);
\* requested: the form indexes whose getFormData message was sent and handled
\*   or lost;
\* restored: the forms restoreFormData wrote into or dispatched an event on.
NoHist == [lastEdited |-> 0, since |-> 0, requested |-> {}, restored |-> {}]

\* The harness at rest on the inputs form and data: no function applied yet.
FnCase(form, data) ==
    [op |-> "idle", form |-> form, data |-> data, out |-> EmptyMap, again |-> EmptyMap,
     fields |-> <<>>, events |-> <<>>, loads |-> <<>>, skipped |-> <<>>,
     auth |-> FALSE,
     write |-> [syncOk |-> FALSE, localOk |-> FALSE, response |-> "", tried |-> <<>>]]

FnIdle == FnCase(Form("", "", "", <<>>), EmptyMap)

PageLoad(clock, modes) ==
    /\ dom \in Pages
    /\ forms = [p \in DOMAIN dom |-> p]
    /\ listeners = [p \in DOMAIN dom |-> <<p - 1>>]
    /\ hasUnsavedChanges = FALSE
    /\ debounceTimer = NoTimer
    /\ hideTimer = NoTimer
    /\ suggestUI = NoPrompt
    /\ domPrompts = 0
    /\ timers = <<>>
    /\ saves = <<>>
    /\ runtimeValid = TRUE
    /\ quota \in modes
    /\ timed = clock
    /\ load = LoadFrom(0)
    /\ \E st \in InitialStores(dom) : sync = st[1] /\ local = st[2]
    /\ hist = NoHist
    /\ fn = FnIdle

Init == PageLoad(FALSE, ServiceModes)

InitTimed == PageLoad(TRUE, {"sync"})

Commit(st) ==
    /\ hasUnsavedChanges' = st.hasUnsavedChanges
    /\ debounceTimer' = st.debounceTimer
    /\ hideTimer' = st.hideTimer
    /\ suggestUI' = st.suggestUI
    /\ domPrompts' = st.domPrompts
    /\ timers' = st.timers
    /\ saves' = st.saves

DebouncePending(ts) == \E h \in DOMAIN ts : ts[h].cls = "debounce"

\* The history after a handler that leaves the tracker as st.
Settle(h, st) ==
    [h EXCEPT !.lastEdited = IF st.hasUnsavedChanges /\ ~st.suggestUI.shown THEN @ ELSE 0,
              !.since = IF DebouncePending(st.timers) THEN @ ELSE 0]

\* The history after an input or change event on a field of form p.
Edited(h, p, st) ==
    IF suggestUI.shown THEN Settle(h, st)
    ELSE Settle([h EXCEPT !.lastEdited = p, !.since = 0], st)

Editable(kind) == kind \notin {"hidden", "file"}

TypedValues(kind) == IF kind = "password" THEN {"x"} ELSE {"bob"}

\* What the browser does to the fields when the user acts on field j.
UserEdit(fields, j, v) ==
    IF fields[j].kind = "checkbox" THEN [fields EXCEPT ![j].checked = ~@]
    ELSE IF fields[j].kind = "radio" THEN
        [UncheckGroup(fields, fields[j].name) EXCEPT ![j].checked = TRUE]
    ELSE [fields EXCEPT ![j].value = v]

\* An input or change event runs the n listeners setupEventListeners attached
\* to the field, one per call of setupEventListeners since the form is there.
RECURSIVE InputListeners(_, _)
InputListeners(st, n) ==
    IF n = 0 THEN st ELSE InputListeners(OnInputChange(st), n - 1)

\* A submit event on form p runs its submit listeners in the order they were
\* attached, each with the index it was attached with.
RECURSIVE SubmitListeners(_, _, _)
SubmitListeners(st, p, indexes) ==
    IF indexes = <<>> THEN st
    ELSE SubmitListeners(OnFormSubmit(st, p, Head(indexes)), p, Tail(indexes))

\* The user types into, or toggles, field j of form p: an input or change
\* event reaches the listeners setupEventListeners attached.
InputEvent(p, j) ==
    /\ p \in Range(forms)
    /\ j \in DOMAIN dom[p].fields
    /\ Editable(dom[p].fields[j].kind)
    /\ \E v \in TypedValues(dom[p].fields[j].kind) :
           dom' = [dom EXCEPT ![p].fields = UserEdit(@, j, v)]
    /\ Commit(InputListeners(Tracker, Len(listeners[p])))
    /\ hist' = Edited(hist, p, InputListeners(Tracker, Len(listeners[p])))
    /\ UNCHANGED <<forms, listeners, load, sync, local, runtimeValid, quota, timed, fn>>

\* A submit event on the form at index formIndex.
SubmitEvent(formIndex) ==
    /\ formIndex \in 0..(Len(forms) - 1)
    /\ LET p == forms[formIndex + 1]
           st == SubmitListeners(Tracker, p, listeners[p])
       IN  Commit(st) /\ hist' = Settle(hist, st)
    /\ UNCHANGED <<dom, forms, listeners, load, sync, local, runtimeValid, quota, timed, fn>>

DismissClick ==
    /\ suggestUI.shown
    /\ LET st == HideSuggestUI(Tracker) IN Commit(st) /\ hist' = Settle(hist, st)
    /\ UNCHANGED <<dom, forms, listeners, load, sync, local, runtimeValid, quota, timed, fn>>

CloseClick ==
    /\ suggestUI.shown
    /\ LET st == HideSuggestUI(Tracker) IN Commit(st) /\ hist' = Settle(hist, st)
    /\ UNCHANGED <<dom, forms, listeners, load, sync, local, runtimeValid, quota, timed, fn>>

SaveClick ==
    /\ suggestUI.shown
    /\ (~suggestUI.disabled
        /\ RunSaveFindsForm(NewSave(suggestUI.form, suggestUI.formIndex), 0))
       => Len(saves) < MaxSaves
    /\ (~suggestUI.disabled
        /\ RunSaveFails(NewSave(suggestUI.form, suggestUI.formIndex), 0))
       => Cardinality(ErrorTimers(timers)) < MaxErrorTimers
    /\ LET st == SaveClickHandler(Tracker) IN Commit(st) /\ hist' = Settle(hist, st)
    /\ UNCHANGED <<dom, forms, listeners, load, sync, local, runtimeValid, quota, timed, fn>>

\* Time passes: one second, when no timer is due.
Tick ==
    /\ timed
    /\ \A h \in DOMAIN timers : timers[h].left > 0
    /\ timers' = [h \in DOMAIN timers |-> [timers[h] EXCEPT !.left = @ - 1]]
    /\ hist' = [hist EXCEPT !.since = IF DebouncePending(timers) THEN @ + 1 ELSE 0]
    /\ UNCHANGED <<dom, forms, listeners, hasUnsavedChanges, debounceTimer, hideTimer, suggestUI,
                   domPrompts, saves, load, sync, local, runtimeValid, quota, timed, fn>>

Due(h, cls) == h \in DOMAIN timers /\ timers[h].cls = cls /\ timers[h].left = 0

Fired(h) == [Tracker EXCEPT !.timers = ClearTimeout(@, h)]

DebounceFire(h) ==
    /\ Due(h, "debounce")
    /\ LET st == DebounceCallback(Fired(h)) IN
           /\ Commit(st)
           /\ hist' = Settle(hist, st)
    /\ UNCHANGED <<dom, forms, listeners, load, sync, local, runtimeValid, quota, timed, fn>>

AutoHideFire(h) ==
    /\ Due(h, "hide")
    /\ LET st == AutoHideCallback(Fired(h)) IN Commit(st) /\ hist' = Settle(hist, st)
    /\ UNCHANGED <<dom, forms, listeners, load, sync, local, runtimeValid, quota, timed, fn>>

ErrorResetFire(h) ==
    /\ Due(h, "errReset")
    /\ LET st == ErrorResetCallback(Fired(h), timers[h].attached) IN
           Commit(st) /\ hist' = Settle(hist, st)
    /\ UNCHANGED <<dom, forms, listeners, load, sync, local, runtimeValid, quota, timed, fn>>

\* The background service handles the saveFormData message of save k.
BgSave(k, outcome) ==
    /\ runtimeValid
    /\ outcome = quota
    /\ k \in DOMAIN saves /\ saves[k].phase = "req"
    /\ LET r == BgSaveFormData(sync, local, saves[k].key, saves[k].data, outcome) IN
           /\ sync' = r.sync
           /\ local' = r.local
           /\ saves' = [saves EXCEPT ![k].phase = "resp", ![k].response = r.response]
    /\ UNCHANGED <<dom, forms, listeners, hasUnsavedChanges, debounceTimer, hideTimer, suggestUI,
                   domPrompts, timers, load, runtimeValid, quota, timed, hist, fn>>

\* The message of save k fails: the extension context went away, or the
\* background service is down.
RejectSave(k) ==
    /\ ~runtimeValid \/ quota = "down"
    /\ k \in DOMAIN saves /\ saves[k].phase = "req"
    /\ saves' = [saves EXCEPT ![k].phase = "resp", ![k].response = "rejected"]
    /\ UNCHANGED <<dom, forms, listeners, hasUnsavedChanges, debounceTimer, hideTimer, suggestUI,
                   domPrompts, timers, load, sync, local, runtimeValid, quota, timed, hist, fn>>

\* The response of save k reaches the content script.
SaveResume(k) ==
    /\ k \in DOMAIN saves /\ saves[k].phase = "resp"
    /\ (saves[k].response = "rejected" \/ RunSaveFails(saves[k], saves[k].i + 1))
       => Cardinality(ErrorTimers(timers)) < MaxErrorTimers
    /\ LET st == SaveResponseHandler(Tracker, k) IN Commit(st) /\ hist' = Settle(hist, st)
    /\ UNCHANGED <<dom, forms, listeners, load, sync, local, runtimeValid, quota, timed, fn>>

\* The extension is reloaded or removed while the page stays open.
Invalidate ==
    /\ runtimeValid
    /\ runtimeValid' = FALSE
    /\ UNCHANGED <<dom, forms, listeners, hasUnsavedChanges, debounceTimer, hideTimer, suggestUI,
                   domPrompts, timers, saves, load, sync, local, quota, timed, hist, fn>>

\* The background service handles the getFormData message of the load.
BgGet(readOk) ==
    /\ runtimeValid
    /\ quota # "down"
    /\ load.phase = "get"
    /\ load' = [load EXCEPT !.phase = "got",
                            !.response = BgGetFormData(sync, local, load.key, readOk)]
    /\ hist' = [hist EXCEPT !.requested = @ \cup {load.i}]
    /\ UNCHANGED <<dom, forms, listeners, hasUnsavedChanges, debounceTimer, hideTimer, suggestUI,
                   domPrompts, timers, saves, sync, local, runtimeValid, quota, timed, fn>>

\* restoreFormData on the form at index i; every event it dispatches reaches
\* the tracker's own listeners.
Restore(i, data) ==
    LET p == forms[i + 1]
        r == RestoreFormData(dom[p], data)
        st == IF r.events # <<>> THEN OnInputChange(Tracker) ELSE Tracker
        wrote == r.fields # dom[p].fields \/ r.events # <<>>
        seen == [hist EXCEPT !.restored = IF wrote THEN @ \cup {p} ELSE @]
    IN  /\ dom' = [dom EXCEPT ![p].fields = r.fields]
        /\ Commit(st)
        /\ hist' = IF r.events # <<>> THEN Edited(seen, p, st) ELSE seen

\* The response to getFormData reaches loadSavedData.
LoadGot ==
    /\ load.phase = "got"
    /\ IF load.response = <<>> THEN
           /\ load' = LoadFrom(load.i + 1)
           /\ UNCHANGED <<dom, hasUnsavedChanges, debounceTimer, hideTimer, suggestUI,
                          domPrompts, timers, saves, hist>>
       ELSE
           LET stored == load.response[1]
               cleanedData == CleanSecurityFields(stored.data)
           IN  IF Size(cleanedData) # Size(stored.data) THEN
                   /\ load' = IF runtimeValid
                              THEN [load EXCEPT !.phase = "put",
                                                !.entry = [stored EXCEPT !.data = cleanedData]]
                              ELSE LoadFrom(load.i + 1)
                   /\ UNCHANGED <<dom, hasUnsavedChanges, debounceTimer, hideTimer,
                                  suggestUI, domPrompts, timers, saves, hist>>
               ELSE
                   /\ Restore(load.i, cleanedData)
                   /\ load' = LoadFrom(load.i + 1)
    /\ UNCHANGED <<forms, listeners, sync, local, runtimeValid, quota, timed, fn>>

\* The background service handles the write-back of the cleaned entry.
BgPut(outcome) ==
    /\ runtimeValid
    /\ outcome = quota
    /\ load.phase = "put"
    /\ LET r == BgSaveFormData(sync, local, load.key, load.entry, outcome) IN
           /\ sync' = r.sync
           /\ local' = r.local
           /\ load' = [load EXCEPT !.phase = "putdone", !.put = r.response]
    /\ UNCHANGED <<dom, forms, listeners, hasUnsavedChanges, debounceTimer, hideTimer, suggestUI,
                   domPrompts, timers, saves, runtimeValid, quota, timed, hist, fn>>

\* The response to the write-back reaches loadSavedData.
LoadPutDone ==
    /\ load.phase = "putdone"
    /\ Restore(load.i, load.entry.data)
    /\ load' = LoadFrom(load.i + 1)
    /\ UNCHANGED <<forms, listeners, sync, local, runtimeValid, quota, timed, fn>>

\* A message of the load fails: the extension context went away, or the
\* background service is down. The loop's catch logs it and the loop goes on.
RejectLoad ==
    /\ ~runtimeValid \/ quota = "down"
    /\ load.phase \in {"get", "put"}
    /\ load' = LoadFrom(load.i + 1)
    /\ hist' = [hist EXCEPT !.requested = @ \cup {load.i}]
    /\ UNCHANGED <<dom, forms, listeners, hasUnsavedChanges, debounceTimer, hideTimer, suggestUI,
                   domPrompts, timers, saves, sync, local, runtimeValid, quota, timed, fn>>

Next ==
    \/ \E p \in DOMAIN dom : \E j \in 1..Len(dom[p].fields) : InputEvent(p, j)
    \/ \E i \in 0..(Len(forms) - 1) : SubmitEvent(i)
    \/ DismissClick
    \/ CloseClick
    \/ SaveClick
    \/ \E h \in DOMAIN timers : DebounceFire(h)
    \/ \E h \in DOMAIN timers : AutoHideFire(h)
    \/ \E h \in DOMAIN timers : ErrorResetFire(h)
    \/ \E k \in DOMAIN saves : \E o \in SaveOutcomes : BgSave(k, o)
    \/ \E k \in DOMAIN saves : RejectSave(k)
    \/ \E k \in DOMAIN saves : SaveResume(k)
    \/ Invalidate
    \/ \E ok \in BOOLEAN : BgGet(ok)
    \/ LoadGot
    \/ \E o \in SaveOutcomes : BgPut(o)
    \/ LoadPutDone
    \/ RejectLoad

Spec == Init /\ [][Next]_vars

(***************************************************************************)
(* SpecTimed: the page load with the delays counted                        *)
(***************************************************************************)

NextTimed ==
    \/ \E p \in DOMAIN dom : \E j \in 1..Len(dom[p].fields) : InputEvent(p, j)
    \/ \E i \in 0..(Len(forms) - 1) : SubmitEvent(i)
    \/ DismissClick
    \/ CloseClick
    \/ SaveClick
    \/ Tick
    \/ \E h \in DOMAIN timers : DebounceFire(h)
    \/ \E h \in DOMAIN timers : AutoHideFire(h)
    \/ \E k \in DOMAIN saves : \E o \in SaveOutcomes : BgSave(k, o)
    \/ \E k \in DOMAIN saves : SaveResume(k)
    \/ \E ok \in BOOLEAN : BgGet(ok)
    \/ LoadGot
    \/ \E o \in SaveOutcomes : BgPut(o)
    \/ LoadPutDone

SpecTimed == InitTimed /\ [][NextTimed]_vars

(***************************************************************************)
(* SpecFn: the functions applied to inputs drawn from bounded sets         *)
(***************************************************************************)

\* Bound: the fields of a form the functions are applied to.
MaxFormLen == 2

\* Bound: successive loads of one key.
MaxLoads == 2

FnFieldSet ==
    { Field("username", "", "text", "bob", FALSE, FALSE),
      Field("pin", "", "password", "x", FALSE, FALSE),
      Field("csrf_token", "", "text", "hi", FALSE, FALSE),
      Field("plan", "", "radio", "pro", TRUE, FALSE),
      Field("agree", "", "checkbox", "", TRUE, FALSE),
      Field("", "note", "textarea", "hi", FALSE, FALSE) }

FnForms ==
    {Form("", "send", "", fields) :
        fields \in UNION {[1..n -> FnFieldSet] : n \in 0..MaxFormLen}}

FnNames == {"username", "pin", "csrf_token", "password"}

FnValues == {StrV("pro"), BoolV(TRUE)}

\* Stored field maps: any of the names, each with any of the values.
FnMaps == UNION {[names -> FnValues] : names \in SUBSET FnNames}

FnKey == GenerateStorageKey(0)

InitFn ==
    /\ dom = <<>>
    /\ forms = <<>>
    /\ listeners = <<>>
    /\ hasUnsavedChanges = FALSE
    /\ debounceTimer = NoTimer
    /\ hideTimer = NoTimer
    /\ suggestUI = NoPrompt
    /\ domPrompts = 0
    /\ timers = <<>>
    /\ saves = <<>>
    /\ runtimeValid = TRUE
    /\ quota \in SaveOutcomes
    /\ timed = FALSE
    /\ load = LoadFrom(0)
    /\ hist = NoHist
    /\ \E form \in FnForms : \E data \in FnMaps :
           /\ fn = FnCase(form, data)
           /\ sync = (FnKey :> Entry(Href, data, 1))
           /\ local = EmptyMap

fnFrame == <<dom, forms, listeners, hasUnsavedChanges, debounceTimer, hideTimer, suggestUI,
             domPrompts, timers, saves, load, runtimeValid, quota, timed, hist>>

FnExtract ==
    /\ fn.op = "idle"
    /\ fn' = [fn EXCEPT !.op = "extract", !.out = ExtractFormData(fn.form)]
    /\ UNCHANGED <<fnFrame, sync, local>>

FnRestore ==
    /\ fn.op = "idle"
    /\ LET r == RestoreFormData(fn.form, fn.data) IN
           fn' = [fn EXCEPT !.op = "restore", !.fields = r.fields, !.events = r.events]
    /\ UNCHANGED <<fnFrame, sync, local>>

\* cleanSecurityFields on the stored map, and on its own result.
FnClean ==
    /\ fn.op = "idle"
    /\ fn' = [fn EXCEPT !.op = "clean", !.out = CleanSecurityFields(fn.data),
                         !.again = CleanSecurityFields(CleanSecurityFields(fn.data))]
    /\ UNCHANGED <<fnFrame, sync, local>>

\* One pass of loadSavedData's loop body for the key, with the background
\* service answering at once: the read, the cleaning, the write-back when the
\* sizes differ. The cleaned map is what restoreFormData is handed.
FnLoad ==
    /\ fn.op \in {"idle", "load"}
    /\ Len(fn.loads) < MaxLoads
    /\ LET response == BgGetFormData(sync, local, FnKey, TRUE)
           stored == response[1]
           cleanedData == CleanSecurityFields(stored.data)
           r == BgSaveFormData(sync, local, FnKey, [stored EXCEPT !.data = cleanedData],
                               quota)
       IN  /\ response # <<>>
           /\ fn' = [fn EXCEPT !.op = "load", !.loads = Append(@, cleanedData)]
           /\ IF Size(cleanedData) # Size(stored.data)
              THEN sync' = r.sync /\ local' = r.local
              ELSE UNCHANGED <<sync, local>>
    /\ UNCHANGED fnFrame

\* The entry a save of the stored map at a later time carries.
FnNewEntry == Entry(Href, fn.data, 2)

\* BackgroundService.saveFormData of a newer entry under the key, each of the
\* two writes resolving or throwing.
FnSave ==
    /\ fn.op = "idle"
    /\ \E syncOk, localOk \in BOOLEAN :
           LET r == TrySaveFormData(sync, local, FnKey, FnNewEntry, syncOk, localOk) IN
           /\ sync' = r.sync
           /\ local' = r.local
           /\ fn' = [fn EXCEPT !.op = "save",
                               !.write = [syncOk |-> syncOk, localOk |-> localOk,
                                          response |-> r.response, tried |-> r.tried]]
    /\ UNCHANGED fnFrame

NextFn ==
    \/ FnExtract
    \/ FnRestore
    \/ FnClean
    \/ FnLoad
    \/ FnSave

SpecFn == InitFn /\ [][NextFn]_vars

(***************************************************************************)
(* SpecDetect: a page that adds forms after load                           *)
(***************************************************************************)

\* Bound: the forms the page adds after load.
MaxAdded == 1

\* The page inserts a form (a further contact form) so that it is the k-th
\* form of the document, counted from 0, once the restoration of the page is
\* over; the MutationObserver callback finds more forms than this.forms
\* holds, takes the new list and runs setupEventListeners, which attaches
\* listeners to every form of the list with its index in the list.
FormsAdded(k) ==
    LET new == Len(dom) + 1
        newForms == [i \in 1..(Len(forms) + 1) |->
                        IF i <= k THEN forms[i] ELSE IF i = k + 1 THEN new ELSE forms[i - 1]]
        indexOf(p) == CHOOSE i \in 0..Len(forms) : newForms[i + 1] = p
    IN  /\ load.phase = "done"
        /\ k \in 0..Len(forms)
        /\ \A p \in DOMAIN listeners : Len(listeners[p]) <= MaxAdded
        /\ dom' = Append(dom, ContactForm)
        /\ forms' = newForms
        /\ listeners' = [p \in 1..new |->
                             IF p = new THEN <<k>> ELSE Append(listeners[p], indexOf(p))]
        /\ UNCHANGED <<hasUnsavedChanges, debounceTimer, hideTimer, suggestUI, domPrompts,
                       timers, saves, load, sync, local, runtimeValid, quota, timed, hist, fn>>

InitDetect == PageLoad(FALSE, {"sync"})

NextDetect ==
    \/ \E p \in DOMAIN dom : \E j \in 1..Len(dom[p].fields) : InputEvent(p, j)
    \/ \E i \in 0..(Len(forms) - 1) : SubmitEvent(i)
    \/ DismissClick
    \/ \E h \in DOMAIN timers : DebounceFire(h)
    \/ \E h \in DOMAIN timers : AutoHideFire(h)
    \/ \E ok \in BOOLEAN : BgGet(ok)
    \/ LoadGot
    \/ \E o \in SaveOutcomes : BgPut(o)
    \/ LoadPutDone
    \/ \E k \in 0..Len(forms) : FormsAdded(k)

SpecDetect == InitDetect /\ [][NextDetect]_vars

(***************************************************************************)
(* SpecKey: generateStorageKey at a save and at a later page load          *)
(***************************************************************************)

\* The pages: origin and path.
KeyPages ==
    {[origin |-> o, path |-> p] :
        o \in {Origin, "https://shop.test"}, p \in {<<Pathname>>, <<Pathname, "/new">>}}

\* The hrefs under which a page is visited: with or without query string and
\* fragment.
KeyHrefs(page) ==
    {<<page.origin>> \o page.path \o s \o h :
        s \in {<<>>, <<"?", "ref=mail">>, <<"?", "q=a/b">>},
        h \in {<<>>, <<"#", "top">>, <<"#", "a", "?", "b">>}}

\* Form indexes, two of them with a common prefix in decimal.
KeyIndexes == {0, 1, 11}

InitKey ==
    /\ dom = <<>>
    /\ forms = <<>>
    /\ listeners = <<>>
    /\ hasUnsavedChanges = FALSE
    /\ debounceTimer = NoTimer
    /\ hideTimer = NoTimer
    /\ suggestUI = NoPrompt
    /\ domPrompts = 0
    /\ timers = <<>>
    /\ saves = <<>>
    /\ runtimeValid = TRUE
    /\ quota = "sync"
    /\ timed = FALSE
    /\ load = LoadFrom(0)
    /\ hist = NoHist
    /\ sync = EmptyMap
    /\ local = EmptyMap
    /\ \E page, again \in KeyPages : \E href \in KeyHrefs(page), reload \in KeyHrefs(again) :
       \E i, j \in KeyIndexes :
           fn = [op |-> "idle", page |-> page, again |-> again, href |-> href,
                 reload |-> reload, i |-> i, j |-> j, saved |-> "", loaded |-> ""]

\* saveFormData generates the key of form i on the page at fn.href.
KeyOnSave ==
    /\ fn.op = "idle"
    /\ fn' = [fn EXCEPT !.op = "saved", !.saved = StorageKeyAt(fn.href, fn.i)]
    /\ UNCHANGED <<fnFrame, sync, local>>

\* loadSavedData generates the key of form j after the page at fn.reload was
\* loaded.
KeyOnLoad ==
    /\ fn.op = "saved"
    /\ fn' = [fn EXCEPT !.op = "loaded", !.loaded = StorageKeyAt(fn.reload, fn.j)]
    /\ UNCHANGED <<fnFrame, sync, local>>

NextKey ==
    \/ KeyOnSave
    \/ KeyOnLoad

SpecKey == InitKey /\ [][NextKey]_vars

(***************************************************************************)
(* SpecGroup: extractFormData and restoreFormData on radio groups          *)
(***************************************************************************)

\* Bound: the fields of a form with a radio group.
MaxGroupLen == 3

\* The members a group named plan can have (one of them carrying a data-token
\* attribute), a radio with no name attribute whose id is the group's name,
\* and a text field beside the group.
GroupFieldSet ==
    { Field("plan", "", "radio", "free", FALSE, FALSE),
      Field("plan", "", "radio", "pro", TRUE, FALSE),
      Field("plan", "", "radio", "team", FALSE, FALSE),
      Field("plan", "", "radio", "team", TRUE, TRUE),
      Field("plan", "", "radio", "free", FALSE, TRUE),
      Field("", "plan", "radio", "solo", TRUE, FALSE),
      Field("username", "", "text", "bob", FALSE, FALSE) }

\* The radios of a form with the name attribute `name`.
GroupMembers(fields, name) ==
    {k \in DOMAIN fields : fields[k].kind = "radio" /\ fields[k].name = name}

\* The browser keeps at most one radio of a group checked.
OneCheckedPerGroup(fields) ==
    \A j, k \in DOMAIN fields :
        (j # k /\ fields[j].kind = "radio" /\ fields[k].kind = "radio"
         /\ fields[j].name # "" /\ fields[j].name = fields[k].name)
        => ~(fields[j].checked /\ fields[k].checked)

GroupForms ==
    {Form("", "send", "", fields) :
        fields \in {f \in UNION {[1..n -> GroupFieldSet] : n \in 0..MaxGroupLen} :
                       OneCheckedPerGroup(f)}}

GroupValues == {StrV("pro"), StrV("team"), BoolV(TRUE)}

GroupMaps == UNION {[names -> GroupValues] : names \in SUBSET {"plan", "username"}}

InitGroup ==
    /\ dom = <<>>
    /\ forms = <<>>
    /\ listeners = <<>>
    /\ hasUnsavedChanges = FALSE
    /\ debounceTimer = NoTimer
    /\ hideTimer = NoTimer
    /\ suggestUI = NoPrompt
    /\ domPrompts = 0
    /\ timers = <<>>
    /\ saves = <<>>
    /\ runtimeValid = TRUE
    /\ quota = "sync"
    /\ timed = FALSE
    /\ load = LoadFrom(0)
    /\ hist = NoHist
    /\ sync = EmptyMap
    /\ local = EmptyMap
    /\ \E form \in GroupForms : \E data \in GroupMaps : fn = FnCase(form, data)

NextGroup ==
    \/ FnExtract
    \/ FnRestore

SpecGroup == InitGroup /\ [][NextGroup]_vars

(***************************************************************************)
(* Properties                                                              *)
(***************************************************************************)

\* C1: at most one save prompt exists at a time, the prompt the tracker holds
\* is the one in the document, and showSuggestUI called while a prompt exists
\* changes nothing, whatever form and index it is called with.
C1_AtMostOnePrompt ==
    /\ domPrompts <= 1
    /\ suggestUI.shown <=> domPrompts = 1
    /\ suggestUI.shown =>
           \A form \in 0..Len(dom) : \A formIndex \in -1..(Len(forms) - 1) :
               ShowSuggestUI(Tracker, form, formIndex) = Tracker

\* A prompt raised by a submit is shown and its save is running.
C1_Witness ==
    suggestUI.shown /\ domPrompts = 1 /\ suggestUI.form # 0 /\ saves # <<>>

\* C2: a form with a password input is classified as an authentication form,
\* and no saveFormData message in flight carries the fields of such a form.
C2_NoPasswordFormSaved ==
    /\ \A p \in DOMAIN dom :
           CountKind(dom[p], "password") > 0 => IsAuthenticationForm(dom[p])
    /\ \A k \in DOMAIN saves :
           saves[k].phase = "req" => CountKind(dom[saves[k].cur], "password") = 0

\* C3: extractFormData records nothing it read from a field of password kind
\* or with a security-pattern name, and restoreFormData neither changes such a
\* field nor dispatches an event on it, even when the map holds its name.
C3_ExcludedFieldsNeitherReadNorWritten ==
    LET fields == fn.form.fields
        label(j) == IF fields[j].name # "" THEN fields[j].name
                    ELSE IF fields[j].id # "" THEN fields[j].id ELSE RandomName(j)
        excluded(j) == fields[j].kind = "password" \/ NameMatchesSecurityPattern(label(j))
    IN  /\ fn.op = "extract" =>
               /\ \A name \in DOMAIN fn.out :
                      \E j \in DOMAIN fields :
                          /\ ~excluded(j)
                          /\ label(j) = name
                          /\ fn.out[name] \in {StrV(fields[j].value), BoolV(TRUE)}
               /\ \A j \in DOMAIN fields :
                      (\A k \in DOMAIN fields : label(k) = label(j) => excluded(k))
                      => label(j) \notin DOMAIN fn.out
        /\ fn.op = "restore" =>
               \A j \in DOMAIN fields :
                   excluded(j) =>
                       /\ fn.fields[j] = fields[j]
                       /\ \A e \in Range(fn.events) : e[1] # j

\* restoreFormData ran on a form with a password field whose name the map
\* holds, and wrote into another field of the form.
C3_Witness ==
    /\ fn.op = "restore"
    /\ fn.events # <<>>
    /\ \E j \in DOMAIN fn.form.fields :
           fn.form.fields[j].kind = "password" /\ fn.form.fields[j].name \in DOMAIN fn.data

\* C4: when the debounce timer fires with unsaved changes and no prompt, the
\* prompt is shown exactly when the form whose field was edited last is not an
\* authentication form.
C4_GateOnEditedForm ==
    [][\A h \in DOMAIN timers :
           (DebounceFire(h) /\ hasUnsavedChanges /\ ~suggestUI.shown /\ hist.lastEdited # 0)
           => (suggestUI'.shown <=> ~IsAuthenticationForm(dom[hist.lastEdited]))]_vars

\* C5: the load issues no request for an authentication form's key and writes
\* into none of its fields, and a load that ran to its end with the extension
\* context valid has asked for every other form.
C5_AuthFormsNotRestored ==
    /\ load.phase # "done" => ~IsAuthenticationForm(dom[forms[load.i + 1]])
    /\ \A i \in hist.requested : ~IsAuthenticationForm(dom[forms[i + 1]])
    /\ \A p \in hist.restored : ~IsAuthenticationForm(dom[p])
    /\ (load.phase = "done" /\ runtimeValid) =>
           \A i \in 0..(Len(forms) - 1) :
               ~IsAuthenticationForm(dom[forms[i + 1]]) => i \in hist.requested

\* The load ended on a page whose first form is an authentication form, and
\* the form after it was restored.
C5_Witness ==
    /\ load.phase = "done"
    /\ runtimeValid
    /\ IsAuthenticationForm(dom[forms[1]])
    /\ hist.restored # {}
    /\ \A p \in hist.restored : dom[p].fields[1].value = "hi"

\* C6: when the response to the prompt's save reports that both tiers failed,
\* the save button shows the error state and is enabled again.
C6_FailureReachesPrompt ==
    [][\A k \in DOMAIN saves :
           (SaveResume(k) /\ saves[k].response = "error" /\ saves[k].attached)
           => (suggestUI'.shown /\ suggestUI'.text = "error" /\ ~suggestUI'.disabled)]_vars

\* C7: the response to a save whose prompt is gone leaves the prompt shown now
\* and the pending timers, their remaining delays included, as they are.
C7_LateResponseHasNoUiEffect ==
    [][\A k \in DOMAIN saves :
           (SaveResume(k) /\ saves[k].response = "success" /\ ~saves[k].attached
            /\ suggestUI.shown)
           => (suggestUI' = suggestUI /\ hideTimer' = hideTimer /\ timers' = timers)]_vars

\* C8: at most one debounce timer is pending, it is the one the tracker
\* holds, and it fires when 2 seconds have passed since the last input or
\* change event the tracker took: never between the events of a burst.
C8_OneFiringAfterLastEvent ==
    LET pending == {h \in DOMAIN timers : timers[h].cls = "debounce"} IN
    /\ Cardinality(pending) <= 1
    /\ pending = IF debounceTimer = NoTimer THEN {} ELSE {debounceTimer}
    /\ \A h \in pending : timers[h].left = DebounceDelay - hist.since

\* The debounce timer is due 2 seconds after an event on the login form, the
\* contact form having been edited before it.
C8_Witness ==
    /\ timed
    /\ hasUnsavedChanges
    /\ \E h \in DOMAIN timers : Due(h, "debounce")
    /\ hist.since = DebounceDelay
    /\ hist.lastEdited # 0
    /\ IsAuthenticationForm(dom[hist.lastEdited])
    /\ \E p \in DOMAIN dom : dom[p].fields[1].name = "message" /\ dom[p].fields[1].value = "bob"

\* C9: once the write-back of a cleaned entry was answered with success,
\* getFormData for the key returns the cleaned entry.
C9_CleanedEntryServed ==
    (load.phase = "putdone" /\ load.put = "success")
    => BgGetFormData(sync, local, load.key, TRUE) = <<load.entry>>

\* C10: cleanSecurityFields applied to its own result returns it unchanged,
\* and successive loads of one key hand restoreFormData the same cleaned map.
C10_CleaningConverges ==
    /\ fn.op = "clean" => fn.again = fn.out
    /\ \A n \in DOMAIN fn.loads : fn.loads[n] = fn.loads[1]

\* The key was loaded twice, and the cleaning removed some but not all of the
\* stored fields.
C10_Witness ==
    /\ fn.op = "load"
    /\ Len(fn.loads) >= 2
    /\ fn.loads[1] # fn.data
    /\ Size(fn.loads[1]) > 0

\* C11: a field of the form that shouldSkipField excludes at save time is
\* absent from the result of cleanSecurityFields on a stored map that holds
\* its name.
C11_CleanRejectsWhatSaveRejects ==
    LET fields == fn.form.fields
        label(j) == IF fields[j].name # "" THEN fields[j].name ELSE fields[j].id
    IN  fn.op = "clean" =>
            \A j \in DOMAIN fields :
                (ShouldSkipField(fields[j], label(j)) /\ label(j) \in DOMAIN fn.data)
                => label(j) \notin DOMAIN fn.out

\* C12: a dismiss click, a close click or the auto-hide timer firing while the
\* prompt is shown removes the prompt, clears hasUnsavedChanges and leaves no
\* hide timer; an input or change event with no prompt shown then sets the
\* flag and starts a debounce timer of 2 seconds, and that timer firing shows
\* a prompt with a 10-second auto-hide timer when the first tracked form is
\* not an authentication form.
C12_DiscardAllowsNewOffer ==
    [][/\ ((DismissClick \/ CloseClick
            \/ \E h \in DOMAIN timers : (AutoHideFire(h) /\ suggestUI.shown))
           => (~suggestUI'.shown /\ domPrompts' = 0 /\ ~hasUnsavedChanges'
               /\ hideTimer' = NoTimer))
       /\ ((~suggestUI.shown
            /\ \E p \in DOMAIN dom : \E j \in 1..Len(dom[p].fields) : InputEvent(p, j))
           => (/\ hasUnsavedChanges'
               /\ debounceTimer' \in DOMAIN timers'
               /\ timers'[debounceTimer'].cls = "debounce"
               /\ timers'[debounceTimer'].left = DebounceDelay))
       /\ ((hasUnsavedChanges /\ ~suggestUI.shown
            /\ ~IsAuthenticationForm(dom[forms[1]])
            /\ \E h \in DOMAIN timers : DebounceFire(h))
           => (/\ suggestUI'.shown
               /\ hideTimer' \in DOMAIN timers'
               /\ timers'[hideTimer'].left = AutoHideDelay))]_vars

\* A prompt is shown again after an earlier prompt was removed while its save
\* was running.
C12_Witness ==
    /\ timed
    /\ suggestUI.shown
    /\ ~suggestUI.disabled
    /\ \E k \in DOMAIN saves : ~saves[k].attached

\* C13: the response that completes the prompt's save leaves the prompt shown
\* with the success text and a hide timer of 1 second; while the success text
\* is shown the time left on the hide timer never grows, so the prompt is
\* removed 1 second after the save completed; the removal leaves no prompt,
\* no timer of the tracker and hasUnsavedChanges false.
C13_SuccessHidesAfterOneSecond ==
    [][/\ \A k \in DOMAIN saves :
              (SaveResume(k) /\ saves[k].attached /\ saves' = RemoveAt(saves, k))
              => (/\ suggestUI'.shown
                  /\ suggestUI'.text = "done"
                  /\ hideTimer' \in DOMAIN timers'
                  /\ timers'[hideTimer'].left = SuccessDelay)
       /\ (suggestUI.shown /\ suggestUI.text = "done" /\ suggestUI'.shown)
          => (/\ suggestUI'.text = "done"
              /\ hideTimer \in DOMAIN timers
              /\ hideTimer' \in DOMAIN timers'
              /\ timers'[hideTimer'].left <= timers[hideTimer].left)
       /\ (suggestUI.shown /\ suggestUI.text = "done"
           /\ \E h \in DOMAIN timers : AutoHideFire(h))
          => (/\ ~suggestUI'.shown
              /\ ~hasUnsavedChanges'
              /\ debounceTimer' = NoTimer
              /\ hideTimer' = NoTimer)]_vars

\* C14: with the extension context valid, a save message that fails while a
\* later form of the loop has fields to save is followed by the message for
\* that form, and a load message that fails is followed by the request for the
\* next form that is not an authentication form.
C14_FailureDoesNotStopLoop ==
    [][/\ \A k \in DOMAIN saves :
              (/\ SaveResume(k)
               /\ saves[k].response = "rejected"
               /\ runtimeValid
               /\ NextNonEmpty(saves[k].form, saves[k].i + 1) < LoopLen(saves[k].form))
              => \E m \in DOMAIN saves' :
                     /\ saves'[m].phase = "req"
                     /\ saves'[m].i = NextNonEmpty(saves[k].form, saves[k].i + 1)
       /\ (RejectLoad /\ runtimeValid /\ NextEligible(load.i + 1) < Len(forms))
          => (load'.phase = "get" /\ load'.i = NextEligible(load.i + 1))]_vars

\* C15: no two saveFormData messages for the same key are in flight at once,
\* whether sent by save clicks or by the load's write-back.
C15_NoConcurrentWritesPerKey ==
    /\ \A j, k \in DOMAIN saves :
           (j # k /\ saves[j].phase = "req" /\ saves[k].phase = "req")
           => saves[j].key # saves[k].key
    /\ \A k \in DOMAIN saves :
           (saves[k].phase = "req" /\ load.phase = "put") => saves[k].key # load.key

C17_ReadFailureIsNoPriorData ==
    [][ /\ BgGet(FALSE) => load'.response = <<>>
        /\ (LoadGot /\ load.response = <<>>) =>
               /\ dom' = dom
               /\ suggestUI' = suggestUI
               /\ domPrompts' = domPrompts
               /\ timers' = timers
               /\ hasUnsavedChanges' = hasUnsavedChanges
               /\ hist'.restored = hist.restored
               /\ sync' = sync /\ local' = local
               /\ load'.phase # "put"
               /\ load'.i > load.i
               /\ \A i \in (load.i + 1)..(load'.i - 1) : IsAuthenticationForm(dom[forms[i + 1]])
               /\ (runtimeValid /\ load'.i < Len(forms)) =>
                      /\ load'.phase = "get"
                      /\ load'.key = GenerateStorageKey(load'.i)
               /\ (runtimeValid /\ load'.phase = "done") => load'.i = Len(forms) ]_vars

\* The read of a form's stored entry failed, the entry is still in the store,
\* the form was not restored and the load has moved past it.
C17_Witness ==
    /\ runtimeValid
    /\ quota # "down"
    /\ \E i \in hist.requested :
           /\ i < load.i
           /\ GenerateStorageKey(i) \in DOMAIN sync
           /\ sync[GenerateStorageKey(i)] = DirtyEntry
           /\ forms[i + 1] \notin hist.restored
           /\ quota = "sync"

\* C18: saveFormData sends no message for a form whose extraction is empty:
\* every message it puts in flight is for a form with a non-empty extraction
\* and carries that extraction, a click on the save button of a prompt whose
\* form extracts to nothing puts no message in flight, and a step that changes
\* a stored entry is the handling of a message in flight for that key, so the
\* entry of the skipped form stays as it was.
C18_EmptyExtractionNotSaved ==
    [][ LET Message(sv) == [key |-> sv.key, data |-> sv.data, cur |-> sv.cur]
            InFlight == {Message(saves[j]) :
                            j \in {k \in DOMAIN saves : saves[k].phase = "req"}}
            \* the forms a save started from the prompt on screen goes through
            Scope == IF suggestUI.form # 0 THEN {suggestUI.form} ELSE Range(forms)
        IN
        /\ \A k \in DOMAIN saves' :
               (saves'[k].phase = "req" /\ Message(saves'[k]) \notin InFlight) =>
                   /\ Size(ExtractFormData(dom[saves'[k].cur])) > 0
                   /\ saves'[k].data.data = ExtractFormData(dom[saves'[k].cur])
                   /\ \E i \in 0..(Len(forms) - 1) :
                          /\ forms[i + 1] = saves'[k].cur
                          /\ saves'[k].key = GenerateStorageKey(i)
        /\ (suggestUI.shown /\ ~suggestUI.disabled /\ SaveClick
              /\ \A p \in Scope : Size(ExtractFormData(dom[p])) = 0) =>
               /\ saves' = saves
               /\ sync' = sync
               /\ local' = local
        /\ \A key \in DOMAIN sync' \cup DOMAIN local' :
               LET changed(old, new) == key \in DOMAIN new
                                        /\ (key \notin DOMAIN old \/ old[key] # new[key])
                   written == IF changed(sync, sync') THEN sync'[key] ELSE local'[key]
               IN  (changed(sync, sync') \/ changed(local, local')) =>
                       \/ \E k \in DOMAIN saves :
                              /\ saves[k].phase = "req"
                              /\ saves[k].key = key
                              /\ saves[k].data = written
                              /\ Size(written.data) > 0
                       \/ load.phase = "put" /\ load.key = key /\ load.entry = written
      ]_vars

\* The save button was clicked on a prompt for a form that extracts to
\* nothing: the save is over with no message sent and the form's stored entry
\* is the one of page load.
C18_Witness ==
    LET Scope == IF suggestUI.form # 0 THEN {suggestUI.form} ELSE Range(forms) IN
    /\ suggestUI.shown
    /\ suggestUI.text = "done"
    /\ saves = <<>>
    /\ quota = "sync"
    /\ runtimeValid
    /\ \A p \in Scope : Size(ExtractFormData(dom[p])) = 0
    /\ \E i \in 0..(Len(forms) - 1) :
           /\ forms[i + 1] \in Scope
           /\ GenerateStorageKey(i) \in DOMAIN sync
           /\ sync[GenerateStorageKey(i)] = DirtyEntry
    /\ local = EmptyMap

\* C19: restoreFormData changes neither the value nor the checked state of a
\* field whose name the stored map lacks or that shouldSkipField excludes, and
\* dispatches no event on it.
C19_AbsentAndExcludedUntouched ==
    LET fields == fn.form.fields
        label(j) == IF fields[j].name # "" THEN fields[j].name ELSE fields[j].id
    IN  fn.op = "restore" =>
            \A j \in DOMAIN fields :
                (label(j) \notin DOMAIN fn.data \/ ShouldSkipField(fields[j], label(j))) =>
                    /\ fn.fields[j].value = fields[j].value
                    /\ fn.fields[j].checked = fields[j].checked
                    /\ \A e \in Range(fn.events) : e[1] # j

\* C20: for a radio group with a member that shouldSkipField does not
\* exclude, extractFormData records under the group's name the value of the
\* checked member, whatever the member's position, and nothing under that name
\* when no member is checked; the radios add no entry under any other name.
C20_RadioGroupRecordedOnce ==
    LET fields == fn.form.fields
        members == GroupMembers(fields, "plan")
        open == {k \in members : ~ShouldSkipField(fields[k], "plan")}
        checked == {k \in members : fields[k].checked}
    IN  fn.op = "extract" =>
            /\ (open # {} /\ checked # {}) =>
                   /\ "plan" \in DOMAIN fn.out
                   /\ \A c \in checked : fn.out["plan"] = StrV(fields[c].value)
            /\ (open # {} /\ checked = {}) => "plan" \notin DOMAIN fn.out
            /\ DOMAIN fn.out \subseteq
                   {"plan"} \cup {fields[k].name : k \in {j \in DOMAIN fields :
                                                            fields[j].kind # "radio"}}

\* extractFormData ran on three radios named plan of which only the last,
\* value pro, is checked, and gave {plan: "pro"}.
C20_Witness ==
    LET fields == fn.form.fields IN
    /\ fn.op = "extract"
    /\ Len(fields) = 3
    /\ GroupMembers(fields, "plan") = {1, 2, 3}
    /\ \A k \in 1..3 : ~fields[k].attr /\ (fields[k].checked <=> k = 3)
    /\ fields[3].value = "pro"
    /\ fn.out = ("plan" :> StrV("pro"))

\* C21: generateStorageKey(i) is origin + pathname + "_form_" + i, whatever
\* the query string and fragment of the page's address; the key generated for
\* form j at a later load of the same page is the key generated for form i at
\* the save exactly when i = j; and the key the tracker uses on its own page
\* is that key.
C21_KeyIsOriginPathIndex ==
    /\ fn.op \in {"saved", "loaded"} =>
           fn.saved = fn.page.origin \o Concat(fn.page.path) \o "_form_" \o ToString(fn.i)
    /\ (fn.op = "loaded" /\ fn.again = fn.page) => (fn.loaded = fn.saved <=> fn.j = fn.i)
    /\ fn.op = "loaded" =>
           /\ \A i \in KeyIndexes : GenerateStorageKey(i) = StorageKeyAt(Location, i)
           /\ Concat(Location) = Href

\* Form 11 was saved on a page visited with a query string and restored after
\* a reload with another query string and a fragment, under one key.
C21_Witness ==
    /\ fn.op = "loaded"
    /\ fn.again = fn.page
    /\ fn.i = 11 /\ fn.j = 11
    /\ UrlSearch(fn.href) # "" /\ UrlSearch(fn.reload) # UrlSearch(fn.href)
    /\ fn.reload # fn.href
    /\ fn.loaded = fn.saved

\* C22: a submit event on the form at index i while the tracker is dirty and
\* no prompt is shown leaves no debounce timer pending; in the same step, with
\* no second elapsing, the prompt is shown for that form and that index with a
\* full auto-hide delay when the form is not an authentication form, and no
\* prompt is shown and the auto-hide timer is left alone when it is one.
C22_SubmitOffersAtOnce ==
    [][ \A i \in 0..(Len(forms) - 1) :
            (hasUnsavedChanges /\ ~suggestUI.shown /\ SubmitEvent(i)) =>
                /\ debounceTimer' = NoTimer
                /\ ~DebouncePending(timers')
                /\ hasUnsavedChanges'
                /\ IF IsAuthenticationForm(dom[forms[i + 1]])
                   THEN /\ suggestUI' = NoPrompt
                        /\ domPrompts' = 0
                        /\ hideTimer' = hideTimer
                   ELSE /\ suggestUI' = [shown |-> TRUE, form |-> forms[i + 1],
                                         formIndex |-> i, disabled |-> FALSE,
                                         text |-> "save"]
                        /\ domPrompts' = 1
                        /\ hideTimer' \in DOMAIN timers'
                        /\ timers'[hideTimer'].cls = "hide"
                        /\ timers'[hideTimer'].left = AutoHideDelay ]_vars

\* The prompt of a submitted form is on screen less than a second after the
\* last edit, with its auto-hide delay still whole and no debounce timer left.
C22_Witness ==
    /\ suggestUI.shown
    /\ suggestUI.formIndex >= 0
    /\ suggestUI.form = forms[suggestUI.formIndex + 1]
    /\ ~IsAuthenticationForm(dom[suggestUI.form])
    /\ hasUnsavedChanges
    /\ hideTimer # NoTimer /\ timers[hideTimer].left = AutoHideDelay
    /\ ~DebouncePending(timers)

\* C23: an input or change event received while the prompt is shown changes
\* no timer and leaves the prompt as it is; no debounce timer is pending while
\* the prompt is shown; and the step that closes the prompt (dismiss, close or
\* auto-hide) leaves the tracker with no prompt, no debounce timer and the
\* unsaved flag cleared.
C23_InputIgnoredWhileOffered ==
    [][ /\ \A p \in DOMAIN dom : \A j \in DOMAIN dom[p].fields :
               (suggestUI.shown /\ InputEvent(p, j)) =>
                   /\ timers' = timers
                   /\ debounceTimer' = debounceTimer
                   /\ hideTimer' = hideTimer
                   /\ suggestUI' = suggestUI
                   /\ domPrompts' = domPrompts
        /\ suggestUI.shown => (debounceTimer = NoTimer /\ ~DebouncePending(timers))
        /\ suggestUI'.shown => (debounceTimer' = NoTimer /\ ~DebouncePending(timers'))
        /\ (suggestUI.shown /\ ~suggestUI'.shown) =>
               /\ suggestUI' = NoPrompt
               /\ domPrompts' = 0
               /\ ~hasUnsavedChanges'
               /\ debounceTimer' = NoTimer
               /\ ~DebouncePending(timers')
               /\ hideTimer' = NoTimer ]_vars

\* The prompt has been on screen for more seconds than a debounce takes, a
\* typed value is in a field of the page, and no debounce timer is pending.
C23_Witness ==
    /\ suggestUI.shown
    /\ suggestUI.text = "save"
    /\ hasUnsavedChanges
    /\ hideTimer # NoTimer /\ timers[hideTimer].left < AutoHideDelay - DebounceDelay
    /\ ~DebouncePending(timers)
    /\ \E p \in DOMAIN dom : \E j \in DOMAIN dom[p].fields :
           dom[p].fields[j].name = "message" /\ dom[p].fields[j].value = "bob"

\* C24: in every state where the prompt is shown or there are no unsaved
\* changes, the submit handler of every tracked form returns the tracker as it
\* found it (flag, debounce timer, auto-hide timer, prompt, pending timers).
C24_SubmitNoOpWhenOfferedOrIdle ==
    \A i \in 0..(Len(forms) - 1) :
        (suggestUI.shown \/ ~hasUnsavedChanges) =>
            LET st == OnFormSubmit(Tracker, forms[i + 1], i) IN
            /\ st.hasUnsavedChanges = hasUnsavedChanges
            /\ st.debounceTimer = debounceTimer
            /\ st.hideTimer = hideTimer
            /\ st.suggestUI = suggestUI
            /\ st.domPrompts = domPrompts
            /\ st.timers = timers
            /\ st.saves = saves

\* The prompt is shown, disabled by a save in progress, with its auto-hide
\* timer pending, on a page with a form that is not an authentication form: a
\* submit of that form arrives with the prompt shown.
C24_Witness ==
    /\ suggestUI.shown
    /\ suggestUI.disabled
    /\ hasUnsavedChanges
    /\ hideTimer # NoTimer
    /\ \E i \in 0..(Len(forms) - 1) : ~IsAuthenticationForm(dom[forms[i + 1]])

\* C25: at every moment the outstanding debounce timers are at most one, the
\* one debounceTimer refers to, and the outstanding auto-hide timers (the
\* 10-second one and the 1-second one after a save) are at most one, the one
\* hideTimer refers to: a timer that was superseded is no longer there to
\* fire.
C25_OneTimerPerClass ==
    LET of(cls) == {h \in DOMAIN timers : timers[h].cls = cls}
        only(ref) == IF ref = NoTimer THEN {} ELSE {ref}
    IN  /\ Cardinality(of("debounce")) <= 1
        /\ of("debounce") = only(debounceTimer)
        /\ Cardinality(of("hide")) <= 1
        /\ of("hide") = only(hideTimer)

\* The save succeeded while the 10-second timer of the prompt was still
\* outstanding: the prompt shows the success text and one auto-hide timer is
\* outstanding, the 1-second one.
C25_Witness ==
    /\ suggestUI.shown
    /\ suggestUI.text = "done"
    /\ hideTimer # NoTimer
    /\ Cardinality({h \in DOMAIN timers : timers[h].cls = "hide"}) = 1
    /\ timers[hideTimer].left = SuccessDelay

\* C26: in every state in which no prompt exists no auto-hide timer (the
\* 10-second one or the 1-second one after a save) is outstanding and
\* hideTimer refers to none.
C26_NoPromptNoHideTimer ==
    ~suggestUI.shown =>
        /\ hideTimer = NoTimer
        /\ \A h \in DOMAIN timers : timers[h].cls # "hide"

\* C27: when the save button is clicked with the runtime context invalid and
\* a form of the save has something to store, no message is put in flight and
\* no tier changes; the handler's catch branch runs: the prompt stays shown
\* with its auto-hide timer, its button enabled and showing the error state,
\* and the 2-second reset of the button is set. The same holds when the
\* context is found invalid as saveFormData goes on to its next form after a
\* response, for the prompt the save was started from.
C27_InvalidContextIsCaught ==
    [][ LET Scope == IF suggestUI.form # 0 THEN {suggestUI.form} ELSE Range(forms)
            caught == /\ suggestUI'.shown
                      /\ suggestUI' = [suggestUI EXCEPT !.disabled = FALSE, !.text = "error"]
                      /\ domPrompts' = domPrompts
                      /\ hideTimer' = hideTimer
                      /\ hasUnsavedChanges' = hasUnsavedChanges
                      /\ Cardinality(ErrorTimers(timers')) = Cardinality(ErrorTimers(timers)) + 1
                      /\ \A h \in DOMAIN timers : timers[h].cls # "errReset" =>
                             h \in DOMAIN timers' /\ timers'[h] = timers[h]
                      /\ sync' = sync /\ local' = local
        IN
        /\ (~runtimeValid /\ suggestUI.shown /\ ~suggestUI.disabled /\ SaveClick
              /\ \E p \in Scope : Size(ExtractFormData(dom[p])) > 0) =>
               (caught /\ saves' = saves)
        /\ \A k \in DOMAIN saves :
               (~runtimeValid /\ SaveResume(k) /\ saves[k].attached
                  /\ saves[k].response # "rejected"
                  /\ saves[k].form = 0
                  /\ \E i \in (saves[k].i + 1)..(Len(forms) - 1) :
                         Size(ExtractFormData(dom[forms[i + 1]])) > 0) =>
                   (caught /\ Len(saves') = Len(saves) - 1
                    /\ \A j \in DOMAIN saves' : saves'[j] \in Range(saves))
      ]_vars

\* The runtime context is invalid and a save ended in the catch branch: the
\* prompt is open with the error state, its button enabled, the reset of the
\* button pending and no message in flight.
C27_Witness ==
    /\ ~runtimeValid
    /\ suggestUI.shown
    /\ suggestUI.text = "error"
    /\ ~suggestUI.disabled
    /\ hideTimer # NoTimer
    /\ ErrorTimers(timers) # {}
    /\ saves = <<>>

\* C28: in every state, an input or change event on a field of a tracked form
\* and a submit event on a tracked form leave the tracker (flag, timers,
\* prompt, and the form and index the prompt is for) as one listener attached
\* to the form with its index in the current form list would.
C28_ReattachmentPreservesBehaviour ==
    \A i \in 0..(Len(forms) - 1) :
        LET p == forms[i + 1] IN
        /\ InputListeners(Tracker, Len(listeners[p])) = OnInputChange(Tracker)
        /\ SubmitListeners(Tracker, p, listeners[p]) = OnFormSubmit(Tracker, p, i)

(***************************************************************************)
(* SpecBg: the background service answering one message                    *)
(***************************************************************************)

\* Bound: the keys the two tiers hold entries under.
MaxEntries == 4

\* chrome.storage.sync.QUOTA_BYTES
QuotaBytes == 102400

\* The chrome.storage calls that throw while one message is handled: none,
\* one of them, or both writes.
FailureCases ==
    {{}} \cup {{"sync.set", "local.set"}}
    \cup {{c} : c \in {"sync.getBytesInUse", "sync.get", "local.get", "sync.set",
                       "local.set", "sync.remove", "local.remove"}}

\* chrome.storage.<tier>.remove(keys)
RemoveKeys(tier, keys) == [k \in (DOMAIN tier) \ keys |-> tier[k]]

\* BackgroundService.getAllFormData: local and sync merged, sync taking
\* precedence; its catch answers the empty object. The tiers hold nothing but
\* form entries, so isFormData keeps every value.
GetAllFormData(s, l, fails) ==
    IF "sync.get" \in fails THEN [data |-> EmptyMap, threw |-> {"sync.get"}]
    ELSE IF "local.get" \in fails THEN [data |-> EmptyMap, threw |-> {"local.get"}]
    ELSE [data |-> s @@ l, threw |-> {}]

\* The sort with the comparison reversed: what C30 must tell apart from the
\* method.
RECURSIVE SortByTimestamp_Descending(_, _)
SortByTimestamp_Descending(keys, data) ==
    IF keys = <<>> THEN <<>>
    ELSE LET m == CHOOSE i \in DOMAIN keys :
                      /\ \A j \in DOMAIN keys :
                             data[keys[i]].timestamp >= data[keys[j]].timestamp
                      /\ \A j \in 1..(i - 1) :
                             data[keys[j]].timestamp < data[keys[i]].timestamp
         IN  <<keys[m]>> \o SortByTimestamp_Descending(RemoveAt(keys, m), data)

\* entries.sort((a, b) => a[1].timestamp - b[1].timestamp) on the keys of
\* data: the sort is stable, entries of one timestamp keep their order.
RECURSIVE SortByTimestamp(_, _)
SortByTimestamp(keys, data) ==
    IF keys = <<>> THEN <<>>
    ELSE LET m == CHOOSE i \in DOMAIN keys :
                      /\ \A j \in DOMAIN keys :
                             data[keys[i]].timestamp <= data[keys[j]].timestamp
                      /\ \A j \in 1..(i - 1) :
                             data[keys[j]].timestamp > data[keys[i]].timestamp
         IN  <<keys[m]>> \o SortByTimestamp(RemoveAt(keys, m), data)

\* BackgroundService.cleanupOldData: the tiers after it and the calls that
\* threw (its catch only logs them). Object.entries lists the keys in the
\* order of their form indexes.
CleanupOldData(s, l, fails) ==
    LET all == GetAllFormData(s, l, fails)
        keys == SelectSeq([i \in 1..MaxEntries |-> GenerateStorageKey(i - 1)],
                          LAMBDA k : k \in DOMAIN all.data)
        entries == SortByTimestamp(keys, all.data)
        keysToRemove == Range(SubSeq(entries, 1, Len(entries) \div 4))
    IN  IF keysToRemove = {} THEN [sync |-> s, local |-> l, threw |-> all.threw]
        ELSE IF "sync.remove" \in fails
        THEN [sync |-> s, local |-> l, threw |-> {"sync.remove"}]
        ELSE IF "local.remove" \in fails
        THEN [sync |-> RemoveKeys(s, keysToRemove), local |-> l, threw |-> {"local.remove"}]
        ELSE [sync |-> RemoveKeys(s, keysToRemove), local |-> RemoveKeys(l, keysToRemove),
              threw |-> {}]

\* BackgroundService.saveFormData with its quota check: bytesInUse is what
\* chrome.storage.sync.getBytesInUse() resolves to. A throw of getBytesInUse
\* goes to the catch block, which writes the fallback tier. cleaned holds the
\* tiers cleanupOldData left, when it ran.
SaveFormData(s, l, key, data, bytesInUse, fails) ==
    LET checked == "sync.getBytesInUse" \notin fails
        cleanup == checked /\ bytesInUse * 10 > QuotaBytes * 9
        c == IF cleanup THEN CleanupOldData(s, l, fails)
             ELSE [sync |-> s, local |-> l, threw |-> {}]
        syncOk == checked /\ "sync.set" \notin fails
        localOk == "local.set" \notin fails
        r == TrySaveFormData(c.sync, c.local, key, data, syncOk, localOk)
    IN  [sync |-> r.sync, local |-> r.local, response |-> r.response,
         cleaned |-> IF cleanup THEN <<[sync |-> c.sync, local |-> c.local]>> ELSE <<>>,
         threw |-> c.threw \cup (IF checked THEN {} ELSE {"sync.getBytesInUse"})
                   \cup (IF checked /\ ~syncOk THEN {"sync.set"} ELSE {})
                   \cup (IF ~syncOk /\ ~localOk THEN {"local.set"} ELSE {})]

\* The onMessage listener around handleMessage: the tiers after the message,
\* the responses handed to sendResponse, in order, whether anything was thrown
\* out of the listener, the storage calls that threw and, when the cleanup
\* ran, the tiers it left. A response is {success}, {data} (null or not) or {error}. An unknown
\* action makes handleMessage reject; the listener's catch answers a
\* rejection with {error}.
HandleMessage(s, l, message, bytesInUse, fails) ==
    LET key == message.key
        Response(shape, success, null, data) ==
            [shape |-> shape, success |-> success, null |-> null, data |-> data]
        Result(s2, l2, threw, response) ==
            [sync |-> s2, local |-> l2, cleaned |-> <<>>, threw |-> threw,
             responses |-> <<response>>, thrown |-> FALSE]
        getFormData ==
            LET readOk == /\ "sync.get" \notin fails
                          /\ key \in DOMAIN s \/ "local.get" \notin fails
                found == BgGetFormData(s, l, key, readOk)
            IN  Result(s, l,
                       IF readOk THEN {}
                       ELSE IF "sync.get" \in fails THEN {"sync.get"} ELSE {"local.get"},
                       Response("data", FALSE, found = <<>>,
                                IF found = <<>> THEN EmptyMap ELSE (key :> found[1])))
        deleteFormData ==
            IF "sync.remove" \in fails
            THEN Result(s, l, {"sync.remove"}, Response("success", FALSE, FALSE, EmptyMap))
            ELSE IF "local.remove" \in fails
            THEN Result(RemoveKeys(s, {key}), l, {"local.remove"},
                        Response("success", FALSE, FALSE, EmptyMap))
            ELSE Result(RemoveKeys(s, {key}), RemoveKeys(l, {key}), {},
                        Response("success", TRUE, FALSE, EmptyMap))
        clearAllData ==
            LET all == GetAllFormData(s, l, fails)
                keys == DOMAIN all.data
            IN  IF keys = {}
                THEN Result(s, l, all.threw, Response("success", TRUE, FALSE, EmptyMap))
                ELSE IF "sync.remove" \in fails
                THEN Result(s, l, {"sync.remove"},
                            Response("success", FALSE, FALSE, EmptyMap))
                ELSE IF "local.remove" \in fails
                THEN Result(RemoveKeys(s, keys), l, {"local.remove"},
                            Response("success", FALSE, FALSE, EmptyMap))
                ELSE Result(RemoveKeys(s, keys), RemoveKeys(l, keys), {},
                            Response("success", TRUE, FALSE, EmptyMap))
    IN  CASE message.action = "saveFormData" ->
                 LET r == SaveFormData(s, l, key, message.data, bytesInUse, fails) IN
                 [Result(r.sync, r.local, r.threw,
                         Response(r.response, r.response = "success", FALSE, EmptyMap))
                  EXCEPT !.cleaned = r.cleaned]
          [] message.action = "getFormData" -> getFormData
          [] message.action = "getAllFormData" ->
                 LET all == GetAllFormData(s, l, fails) IN
                 Result(s, l, all.threw, Response("data", FALSE, FALSE, all.data))
          [] message.action = "deleteFormData" -> deleteFormData
          [] message.action = "clearAllData" -> clearAllData
          [] OTHER -> Result(s, l, {}, Response("error", FALSE, FALSE, EmptyMap))

\* The stores the service may find: under each key nothing, an entry in one
\* tier carrying one of two timestamps, or an older entry in the fallback tier
\* under a newer one in the primary tier.
InitBg ==
    /\ dom = <<>>
    /\ forms = <<>>
    /\ listeners = <<>>
    /\ hasUnsavedChanges = FALSE
    /\ debounceTimer = NoTimer
    /\ hideTimer = NoTimer
    /\ suggestUI = NoPrompt
    /\ domPrompts = 0
    /\ timers = <<>>
    /\ saves = <<>>
    /\ runtimeValid = TRUE
    /\ quota = "sync"
    /\ timed = FALSE
    /\ load = LoadFrom(0)
    /\ hist = NoHist
    /\ \E held \in [0..(MaxEntries - 1) ->
                       {<<0, 0>>, <<1, 0>>, <<2, 0>>, <<0, 1>>, <<0, 2>>, <<2, 1>>}] :
           LET stored(tier) ==
                   LET at == {i \in DOMAIN held : held[i][tier] # 0}
                       keyOf == [i \in at |-> GenerateStorageKey(i)]
                   IN  [k \in {keyOf[i] : i \in at} |->
                           LET i == CHOOSE j \in at : keyOf[j] = k IN
                           Entry(Href, ("message" :> StrV("hi")), held[i][tier])]
           IN  /\ sync = stored(1)
               /\ local = stored(2)
    /\ fn = [op |-> "idle", message |-> [action |-> "", key |-> "", data |-> NoEntry],
             bytesInUse |-> 0, sync |-> sync, local |-> local, cleaned |-> <<>>,
             threw |-> {}, responses |-> <<>>, thrown |-> FALSE]

\* One message arrives and is answered: any of the five actions or an unknown
\* one, for the key of form 0, the tier usage on either side of the 90 percent
\* mark, any of FailureCases. fn keeps the message, the tiers it found and the
\* listener's result.
OnMessage ==
    /\ fn.op = "idle"
    /\ \E action \in {"saveFormData", "getFormData", "getAllFormData", "deleteFormData",
                      "clearAllData", "ping"} :
       \E bytesInUse \in {(QuotaBytes * 9) \div 10, (QuotaBytes * 9) \div 10 + 1} :
       \E fails \in FailureCases :
           LET message == [action |-> action, key |-> GenerateStorageKey(0),
                           data |-> Entry(Href, ("message" :> StrV("bob")), 3)]
               r == HandleMessage(sync, local, message, bytesInUse, fails)
           IN  /\ sync' = r.sync
               /\ local' = r.local
               /\ fn' = [op |-> "handled", message |-> message, bytesInUse |-> bytesInUse,
                         sync |-> sync, local |-> local, cleaned |-> r.cleaned,
                         threw |-> r.threw, responses |-> r.responses,
                         thrown |-> r.thrown]
    /\ UNCHANGED fnFrame

SpecBg == InitBg /\ [][OnMessage]_vars

\* C29: every message the background service handles gets exactly one
\* response and nothing is thrown out of the listener; when the request
\* failed (an unknown action, a save that stored the entry in neither tier,
\* or a read, delete or clear one of whose storage calls threw) that response
\* is {error}, {success: false} or {data: null}.
C29_OneResponseReportingFailure ==
    fn.op = "handled" =>
        LET message == fn.message
            failed == CASE message.action = "saveFormData" ->
                               /\ ~(message.key \in DOMAIN sync /\ sync[message.key] = message.data)
                               /\ ~(message.key \in DOMAIN local
                                    /\ local[message.key] = message.data)
                        [] message.action \in {"getFormData", "getAllFormData",
                                               "deleteFormData", "clearAllData"} ->
                               fn.threw # {}
                        [] OTHER -> TRUE
        IN  /\ Len(fn.responses) = 1
            /\ ~fn.thrown
            /\ failed => \/ fn.responses[1].shape = "error"
                         \/ fn.responses[1].shape = "success" /\ ~fn.responses[1].success
                         \/ fn.responses[1].shape = "data" /\ fn.responses[1].null

C31_EveryChangeDispatchesEvent ==
    fn.op = "restore" =>
        \A j \in DOMAIN fn.fields :
            fn.fields[j] # fn.form.fields[j] => \E k \in DOMAIN fn.events : fn.events[k][1] = j

(***************************************************************************)
(* SpecRound: extractFormData and restoreFormData on every kind of field   *)
(***************************************************************************)

\* Bound: the fields of a form of SpecRound.
MaxRoundLen == 2

\* Bound: the input elements of the long forms of SpecRound.
MaxLongInputs == 9

\* Text fields (one of them blank), checkboxes with and without a value
\* string, checked and not, the radios of a group named plan, two of them
\* sharing a value, a password field, hidden fields whose value has 20
\* token characters, 21 of them, or more than 20 characters that are not all
\* token characters, a text field with 21 token characters, a field under a
\* security name and one carrying a security data attribute.
RoundFieldSet ==
    { Field("username", "", "text", "bob", FALSE, FALSE),
      Field("username", "", "text", "  ", FALSE, FALSE),
      Field("", "note", "textarea", "hi", FALSE, FALSE),
      Field("agree", "", "checkbox", "", TRUE, FALSE),
      Field("agree", "", "checkbox", "yes", TRUE, FALSE),
      Field("agree", "", "checkbox", "yes", FALSE, FALSE),
      Field("plan", "", "radio", "free", TRUE, FALSE),
      Field("plan", "", "radio", "pro", TRUE, FALSE),
      Field("plan", "", "radio", "pro", FALSE, FALSE),
      Field("pin", "", "password", "x", FALSE, FALSE),
      Field("ref", "", "hidden", "abcdefghijklmnopqrst", FALSE, FALSE),
      Field("ref", "", "hidden", "abcdefghijklmnopqrstu", FALSE, FALSE),
      Field("ref", "", "hidden", "a long value, not a token", FALSE, FALSE),
      Field("ref", "", "text", "abcdefghijklmnopqrstu", FALSE, FALSE),
      Field("csrf_token", "", "text", "hi", FALSE, FALSE),
      Field("nickname", "", "text", "bob", FALSE, TRUE) }

\* A form of up to MaxRoundLen fields and a stored map holding at most one of
\* the names, under a string or a boolean; or a long form, of up to
\* MaxLongInputs text inputs, the first of them may be an email input, and
\* maybe a textarea, in a container whose text may match a context pattern.
InitRound ==
    /\ dom = <<>>
    /\ forms = <<>>
    /\ listeners = <<>>
    /\ hasUnsavedChanges = FALSE
    /\ debounceTimer = NoTimer
    /\ hideTimer = NoTimer
    /\ suggestUI = NoPrompt
    /\ domPrompts = 0
    /\ timers = <<>>
    /\ saves = <<>>
    /\ runtimeValid = TRUE
    /\ quota = "sync"
    /\ timed = FALSE
    /\ load = LoadFrom(0)
    /\ hist = NoHist
    /\ sync = EmptyMap
    /\ local = EmptyMap
    /\ \/ \E fields \in UNION {[1..n -> RoundFieldSet] : n \in 0..MaxRoundLen} :
          \E data \in {EmptyMap} \cup
                      {(name :> v) : name \in {"username", "agree", "plan"},
                                     v \in {StrV("pro"), StrV("yes"), StrV("true"),
                                            BoolV(TRUE), BoolV(FALSE)}} :
              /\ OneCheckedPerGroup(fields)
              /\ fn = FnCase(Form("", "send", "", fields), data)
       \/ \E n \in 0..MaxLongInputs : \E email, textarea \in BOOLEAN :
          \E context \in {"", "see our privacy policy"} :
              LET inputs == [j \in 1..n |->
                                IF j = 1 /\ email
                                THEN Field("email", "", "email", "bob", FALSE, FALSE)
                                ELSE Field("nickname", "", "text", "bob", FALSE, FALSE)]
                  fields == IF textarea
                            THEN Append(inputs, Field("", "note", "textarea", "hi", FALSE, FALSE))
                            ELSE inputs
              IN  fn = FnCase(Form("", "send", context, fields), EmptyMap)

\* extractFormData of the form, then restoreFormData of the extracted map into
\* a copy of the form with its text fields empty and its checkboxes and radios
\* unchecked.
FnRoundTrip ==
    /\ fn.op = "idle"
    /\ LET out == ExtractFormData(fn.form)
           copy == [j \in DOMAIN fn.form.fields |->
                       IF fn.form.fields[j].kind \in {"checkbox", "radio"}
                       THEN [fn.form.fields[j] EXCEPT !.checked = FALSE]
                       ELSE [fn.form.fields[j] EXCEPT !.value = ""]]
           r == RestoreFormData([fn.form EXCEPT !.fields = copy], out)
       IN  fn' = [fn EXCEPT !.op = "roundtrip", !.out = out, !.fields = r.fields,
                            !.events = r.events]
    /\ UNCHANGED <<fnFrame, sync, local>>

\* shouldSkipField on every field of the form, under the name extractFormData
\* and restoreFormData hand it.
FnSkip ==
    /\ fn.op = "idle"
    /\ fn' = [fn EXCEPT !.op = "skip",
                        !.skipped = [j \in DOMAIN fn.form.fields |->
                                        ShouldSkipField(fn.form.fields[j],
                                            IF fn.form.fields[j].name # ""
                                            THEN fn.form.fields[j].name
                                            ELSE fn.form.fields[j].id)]]
    /\ UNCHANGED <<fnFrame, sync, local>>

\* isAuthenticationForm on the form.
FnClassify ==
    /\ fn.op = "idle"
    /\ fn' = [fn EXCEPT !.op = "classify", !.auth = IsAuthenticationForm(fn.form)]
    /\ UNCHANGED <<fnFrame, sync, local>>

NextRound ==
    \/ FnExtract
    \/ FnRestore
    \/ FnRoundTrip
    \/ FnSkip
    \/ FnClassify

SpecRound == InitRound /\ [][NextRound]_vars

\* C32: after restoreFormData, among the fields that are not excluded and
\* whose name the map holds: of a radio group the only member checked is the
\* first whose value equals the stored string, and none is checked when no
\* member matches or the stored value is a boolean; a checkbox is checked as
\* the stored boolean says or, for a stored string, when the string equals its
\* own value or "true"; a text-like field carries the stored string; a
\* text-like field under a stored boolean is as it was.
C32_RestoreByKind ==
    fn.op = "restore" =>
        \A j \in DOMAIN fn.form.fields :
            LET element == fn.form.fields[j]
                name == IF element.name # "" THEN element.name ELSE element.id
                after == fn.fields[j]
            IN  (name \in DOMAIN fn.data /\ ~ShouldSkipField(element, name)) =>
                    LET value == fn.data[name] IN
                    IF element.kind = "radio" THEN
                        after.checked <=>
                            /\ ~value.isBool
                            /\ element.value = value.s
                            /\ \A k \in 1..(j - 1) :
                                   ~(fn.form.fields[k].kind = "radio"
                                     /\ fn.form.fields[k].name = name
                                     /\ fn.form.fields[k].value = value.s)
                    ELSE IF element.kind = "checkbox" THEN
                        after.checked <=>
                            IF value.isBool THEN value.b
                            ELSE element.value = value.s \/ value.s = "true"
                    ELSE after.value = IF value.isBool THEN element.value ELSE value.s

\* A restoration that unchecked the checked radio of a group and checked the
\* member carrying the stored string.
C32_Witness ==
    /\ fn.op = "restore"
    /\ fn.data = ("plan" :> StrV("pro"))
    /\ \E j, k \in DOMAIN fn.fields :
           /\ fn.form.fields[j] = Field("plan", "", "radio", "pro", FALSE, FALSE)
           /\ fn.form.fields[k] = Field("plan", "", "radio", "free", TRUE, FALSE)
           /\ fn.fields[j].checked
           /\ ~fn.fields[k].checked

\* C33: in the map extractFormData returns, a name carried by checkboxes or by
\* text-like fields is a key exactly when one of its fields that is not
\* excluded is a checked checkbox or a text-like field whose value is not
\* empty after trimming; the key then holds, for the last such field, a
\* checkbox's value string when that is not empty and the boolean true
\* otherwise, a text-like field's value.
C33_OnlyCheckedAndNonBlankRecorded ==
    fn.op = "extract" =>
        LET fields == fn.form.fields
            label(j) == IF fields[j].name # "" THEN fields[j].name ELSE fields[j].id
            recording(name) ==
                {j \in DOMAIN fields :
                    /\ label(j) = name
                    /\ ~ShouldSkipField(fields[j], name)
                    /\ IF fields[j].kind = "checkbox" THEN fields[j].checked
                       ELSE fields[j].value \notin {"", "  "}}
        IN  \A name \in {"username", "note", "agree", "pin", "ref", "csrf_token", "nickname"} :
                /\ name \in DOMAIN fn.out <=> recording(name) # {}
                /\ name \in DOMAIN fn.out =>
                       LET last == fields[CHOOSE j \in recording(name) :
                                              \A k \in recording(name) : k <= j]
                       IN  fn.out[name] =
                               IF last.kind = "checkbox" /\ last.value = ""
                               THEN BoolV(TRUE) ELSE StrV(last.value)

\* An extraction from a form with a blank text field and a checked checkbox
\* without a value string: the map holds the checkbox under true and nothing
\* for the text field.
C33_Witness ==
    /\ fn.op = "extract"
    /\ \E j, k \in DOMAIN fn.form.fields :
           /\ fn.form.fields[j] = Field("username", "", "text", "  ", FALSE, FALSE)
           /\ fn.form.fields[k] = Field("agree", "", "checkbox", "", TRUE, FALSE)
    /\ fn.out = ("agree" :> BoolV(TRUE))

\* C34: shouldSkipField answers true for a field exactly when its kind is
\* password, or its name matches a security pattern, or its kind is hidden
\* and its value has more than 20 characters, all of the token alphabet, or
\* it carries a security data attribute; a hidden value of exactly 20 token
\* characters is not excluded by the value rule.
C34_SkipExactlyWhenARuleHolds ==
    fn.op = "skip" =>
        \A j \in DOMAIN fn.form.fields :
            LET element == fn.form.fields[j]
                name == IF element.name # "" THEN element.name ELSE element.id
            IN  fn.skipped[j] <=>
                    \/ element.kind = "password"
                    \/ name \in SecurityPatternNames
                    \/ /\ element.kind = "hidden"
                       /\ Len(element.value) \notin 0..20
                       /\ element.value \in TokenAlphabetValues
                    \/ element.attr

\* shouldSkipField applied to a hidden field of 20 token characters, kept, and
\* to one of 21, excluded.
C34_Witness ==
    /\ fn.op = "skip"
    /\ Len(fn.form.fields) = 2
    /\ fn.form.fields[1].kind = "hidden"
    /\ Len(fn.form.fields[1].value) = 20
    /\ ~fn.skipped[1]
    /\ fn.form.fields[2].kind = "hidden"
    /\ Len(fn.form.fields[2].value) = 21
    /\ fn.skipped[2]

\* C35: for a form that fires none of the other rules of isAuthenticationForm
\* (no password input, no authentication identifier, field pattern or button
\* text, not the email-registration rule), the verdict is true exactly when
\* the container text matches a context pattern and the form has at most 8
\* input elements.
C35_ContextDecidesUpToEightInputs ==
    fn.op = "classify" =>
        LET form == fn.form
            inputs == {j \in DOMAIN form.fields :
                          form.fields[j].kind \notin {"textarea", "select"}}
            label(j) == IF form.fields[j].name # "" THEN form.fields[j].name
                        ELSE form.fields[j].id
            otherRule ==
                \/ \E j \in inputs : form.fields[j].kind = "password"
                \/ form.ident \in AuthIdentifiers
                \/ HasAuthFieldPattern(form)
                \/ form.button \in AuthButtonTexts
                \/ /\ \E j \in inputs : form.fields[j].kind = "email"
                   /\ Cardinality(inputs) >= 3
                   /\ \E j \in inputs : label(j) \in RegistrationIndicatorLabels
        IN  ~otherRule =>
                (fn.auth <=> /\ form.context \in AuthContextTexts
                             /\ Cardinality(inputs) <= 8)

\* A form of nine inputs in a container that mentions the privacy policy,
\* classified as not an authentication form.
C35_Witness ==
    /\ fn.op = "classify"
    /\ fn.form.context = "see our privacy policy"
    /\ Len(InputTags(fn.form)) = 9
    /\ ~fn.auth

\* C36: after a saveFormData answered with success, getFormData for the key
\* answers the entry that was saved.
C36_SavedEntryIsServed ==
    (fn.op = "save" /\ fn.write.response = "success") =>
        BgGetFormData(sync, local, FnKey, TRUE) = <<FnNewEntry>>

\* C38: a submit of an authentication form while the edits to another form,
\* one that is not an authentication form, wait for their debounce timer
\* leaves a debounce timer pending or a prompt shown.
C38_AuthSubmitKeepsPendingOffer ==
    [][ \A i \in 0..(Len(forms) - 1) :
            (/\ SubmitEvent(i)
             /\ IsAuthenticationForm(dom[forms[i + 1]])
             /\ hasUnsavedChanges
             /\ hist.lastEdited # 0
             /\ ~IsAuthenticationForm(dom[hist.lastEdited])
             /\ DebouncePending(timers))
            => (DebouncePending(timers') \/ suggestUI'.shown) ]_vars

(***************************************************************************)
(* SpecLive: the prompt's life with the window's timer queue served        *)
(***************************************************************************)

\* The steps of Spec that act on the prompt, its timers and the saves; the
\* restoration of the page load, which reaches the tracker only through the
\* input events it dispatches, is left to InputEvent.
NextLive ==
    \/ \E p \in DOMAIN dom : \E j \in 1..Len(dom[p].fields) : InputEvent(p, j)
    \/ \E i \in 0..(Len(forms) - 1) : SubmitEvent(i)
    \/ DismissClick
    \/ CloseClick
    \/ SaveClick
    \/ \E h \in DOMAIN timers : DebounceFire(h)
    \/ \E h \in DOMAIN timers : AutoHideFire(h)
    \/ \E h \in DOMAIN timers : ErrorResetFire(h)
    \/ \E k \in DOMAIN saves : \E o \in SaveOutcomes : BgSave(k, o)
    \/ \E k \in DOMAIN saves : RejectSave(k)
    \/ \E k \in DOMAIN saves : SaveResume(k)
    \/ Invalidate

\* A pending timeout whose delay has passed is run by the event loop: the
\* callback of an auto-hide timer is not postponed for ever.
SpecLive ==
    Init /\ [][NextLive]_vars /\ WF_vars(\E h \in DOMAIN timers : AutoHideFire(h))

\* C37: while a prompt exists an auto-hide timer is outstanding and is the one
\* hideTimer refers to, and every prompt that is shown is eventually removed.
C37_PromptEventuallyRemoved ==
    /\ [](suggestUI.shown =>
              /\ hideTimer \in DOMAIN timers
              /\ timers[hideTimer].cls = "hide")
    /\ (suggestUI.shown ~> ~suggestUI.shown)

\* A prompt whose save failed: it shows the error text, its button is enabled
\* again, and the auto-hide timer set when it was shown is still outstanding.
C37_Witness ==
    /\ suggestUI.shown
    /\ suggestUI.text = "error"
    /\ ~suggestUI.disabled
    /\ hideTimer \in DOMAIN timers
    /\ timers[hideTimer].cls = "hide"

====
